---------------------------- MODULE Spec2Model ----------------------------
(***************************************************************************)
(* Model of the insurance policy processing worker (src/index.js).         *)
(*                                                                         *)
(* A job {run_id, attempt} is popped from the Redis queue by startWorker,  *)
(* processJob looks the run up and runs processPolicyPipeline.  Of its six  *)
(* stages, Map, Harvest, Validate and Export are one action each, Intake   *)
(* is one action per await of its document loop, and Normalize one action  *)
(* per answer of the merge service.  The runs table, the benefits table    *)
(* and the queue are the persistent state; the values handed from stage    *)
(* to stage are the pipeline's local state.                                *)
(*                                                                         *)
(* Text is modelled as a sequence of words.  A word stands for a piece of  *)
(* text; Occurs gives the keywords of the source's keyword tables that     *)
(* String.includes finds in it, WordLen its length in characters.          *)
(***************************************************************************)
EXTENDS Integers, Sequences, FiniteSets, TLC

\* ------------------------------------------------------------------------
\* Bounds of the model
\* ------------------------------------------------------------------------

\* documents listed for a run
MaxDocs == 2
\* paragraphs over all documents of a run
MaxChunks == 2
\* jobs a client pushes for the run
MaxJobs == 2
\* benefits in a list handed to a deduplication on its own
MaxList == 3
\* lines of a page text handed to the structural index on its own
MaxLines == 4
\* words of a paragraph handed to the classification on its own
MaxWords == 3
\* The ceiling MAX_BENEFITS of index.js:1406 is 500; the model scales it down
\* so that a run can exceed it.
MAX_BENEFITS == 1
\* The batch size of stageExport (index.js:1702) is 50; scaled down so that
\* an export has several batches.
batchSize == 1

\* ------------------------------------------------------------------------
\* Program constants
\* ------------------------------------------------------------------------

MAX_RETRIES == 3
MAX_EVIDENCE == 5
\* extractBenefits: paragraph length limits, duplicate key and page probe
MinParagraphLen == 30
MaxParagraphLen == 2000
QuoteKeyLen == 100
PageProbeLen == 50
\* generateBenefitSummary: summary limit
SummaryLen == 200
\* detectMissingRequirements: a text shorter than this is unreadable
MinReadableLen == 100
\* fuzzyDeduplication / fallbackDeduplication: key lengths
FuzzyKeyLen == 40
FallbackKeyLen == 50

\* ------------------------------------------------------------------------
\* Generic helpers
\* ------------------------------------------------------------------------

Min(a, b) == IF a <= b THEN a ELSE b

Range(s) == {s[i] : i \in DOMAIN s}

RECURSIVE Flatten(_)
Flatten(ss) == IF ss = <<>> THEN <<>> ELSE Head(ss) \o Flatten(Tail(ss))

RECURSIVE SumLen(_)
SumLen(ns) == IF ns = <<>> THEN 0 ELSE Head(ns) + SumLen(Tail(ns))

\* ------------------------------------------------------------------------
\* Keyword tables (the English entries; the words of the model are English)
\* ------------------------------------------------------------------------

RIGHT_KEYWORDS ==
  {"entitled", "shall be entitled", "will be entitled", "covered", "shall cover",
   "will cover", "coverage", "reimburse", "reimbursement", "shall reimburse",
   "compensate", "compensation", "shall compensate", "payment", "shall pay",
   "will pay", "indemnify", "indemnification", "benefit", "shall provide",
   "will provide", "eligible", "eligibility"}

EXCLUSION_KEYWORDS ==
  {"not covered", "not entitled", "excluded", "exclusion", "except", "excluding",
   "does not cover", "will not cover", "shall not", "will not", "no coverage",
   "not eligible", "waiver", "exempt", "not included", "does not include"}

\* "shekel" stands for the sign U+20AA of AMOUNT_KEYWORDS.hebrew
AMOUNT_KEYWORDS ==
  {"shekel", "$", "USD", "ILS", "NIS", "amount", "maximum", "limit", "up to",
   "deductible", "copay", "co-payment"}

BENEFIT_KEYWORDS ==
  [certain |-> {"entitled", "covered", "reimbursed", "compensated"},
   conditional |-> {"if", "when", "provided that", "subject to", "conditional"},
   service |-> {"service", "assistance", "support", "helpline", "concierge"}]

\* ------------------------------------------------------------------------
\* Words
\* ------------------------------------------------------------------------

\* numbers as written: with thousands separators, without, and a short one
Numbers == {"5,000", "5000", "300"}

\* The keywords that text.includes(kw) || lowerText.includes(kw) finds in a word.
\* "benefit" contains "if"; "filler" is a stretch of text without any keyword.
Occurs(w) ==
  CASE w = "entitled" -> {"entitled"}
    [] w = "benefit" -> {"benefit", "if"}
    [] w = "service" -> {"service"}
    [] w = "subject to" -> {"subject to"}
    [] w = "excluded" -> {"excluded"}
    [] w = "up to" -> {"up to"}
    [] w = "ILS" -> {"ILS"}
    [] w = "shekel" -> {"shekel"}
    [] w = "maximum" -> {"maximum"}
    [] w = "coverage" -> {"coverage"}
    [] OTHER -> {}

\* length of a word in characters ("filler" is a long stretch of text)
WordLen(w) ==
  CASE w = "entitled" -> 8
    [] w = "benefit" -> 7
    [] w = "service" -> 7
    [] w = "subject to" -> 10
    [] w = "excluded" -> 8
    [] w = "up to" -> 5
    [] w = "ILS" -> 3
    [] w = "shekel" -> 1
    [] w = "maximum" -> 7
    [] w = "coverage" -> 8
    [] w = "5,000" -> 5
    [] w = "5000" -> 4
    [] w = "300" -> 3
    [] w = "filler" -> 120
    [] OTHER -> 1

\* length of a text: its words joined by single spaces
TextLen(words) ==
  IF words = <<>> THEN 0
  ELSE SumLen([i \in DOMAIN words |-> WordLen(words[i])]) + (Len(words) - 1)

\* text.substring(0, n), cut at the last word that fits
RECURSIVE Prefix(_, _)
Prefix(words, n) ==
  IF words = <<>> \/ WordLen(Head(words)) > n THEN <<>>
  ELSE <<Head(words)>> \o Prefix(Tail(words), n - WordLen(Head(words)) - 1)

HasKeyword(words, kws) == \E i \in DOMAIN words : Occurs(words[i]) \cap kws # {}


\* needle occurs in hay as a contiguous run of words (String.includes)
IsInfix(needle, hay) ==
  \E o \in 0..Len(hay) :
    /\ o + Len(needle) <= Len(hay)
    /\ \A i \in DOMAIN needle : hay[o + i] = needle[i]

\* ------------------------------------------------------------------------
\* Classification of a paragraph
\* ------------------------------------------------------------------------

detectBenefitStatus(text) ==
  IF text = <<>> THEN "included"
  ELSE IF HasKeyword(text, EXCLUSION_KEYWORDS) THEN "excluded"
  ELSE "included"

\* the currency signs of amountPattern that can follow a number
CurrencySigns == {"shekel", "$"}

hasAmountReference(text) ==
  IF text = <<>> THEN FALSE
  ELSE \/ HasKeyword(text, AMOUNT_KEYWORDS)
       \/ \E i \in DOMAIN text :
            /\ text[i] \in Numbers
            /\ i + 1 <= Len(text)
            /\ text[i + 1] \in CurrencySigns

\* detectBenefitLayer with the conditional keywords looked for first
detectBenefitLayerConditionalFirst(text) ==
  IF text = <<>> THEN "conditional"
  ELSE IF HasKeyword(text, BENEFIT_KEYWORDS.conditional) THEN "conditional"
  ELSE IF HasKeyword(text, BENEFIT_KEYWORDS.service) THEN "service"
  ELSE IF HasKeyword(text, BENEFIT_KEYWORDS.certain) THEN "certain"
  ELSE "conditional"

detectBenefitLayer(text) ==
  IF text = <<>> THEN "conditional"
  ELSE IF HasKeyword(text, BENEFIT_KEYWORDS.service) THEN "service"
  ELSE IF HasKeyword(text, BENEFIT_KEYWORDS.conditional) THEN "conditional"
  ELSE IF HasKeyword(text, BENEFIT_KEYWORDS.certain) THEN "certain"
  ELSE "conditional"

\* ------------------------------------------------------------------------
\* Amounts
\* ------------------------------------------------------------------------

\* the digits of a number as written, and whether it is written with
\* thousands separators
DigitsOf(w) ==
  CASE w = "5,000" -> <<5, 0, 0, 0>>
    [] w = "5000" -> <<5, 0, 0, 0>>
    [] w = "300" -> <<3, 0, 0>>
    [] OTHER -> <<>>

Separated(w) == w = "5,000"

\* parseFloat(match[1].replace(/,/g, ''))
RECURSIVE parseFloat(_)
parseFloat(ds) ==
  IF ds = <<>> THEN 0 ELSE 10 * parseFloat(SubSeq(ds, 1, Len(ds) - 1)) + ds[Len(ds)]

\* What \d{1,3}(?:,\d{3})* captures of a number that follows a keyword: all
\* of it when it is grouped by separators or has at most three digits, its
\* first three digits otherwise.
CapturedAfterKeyword(w) ==
  IF Separated(w) \/ Len(DigitsOf(w)) <= 3 THEN DigitsOf(w)
  ELSE SubSeq(DigitsOf(w), 1, 3)

\* What the same group captures of a number that a currency sign must follow
\* directly: the last three digits of an ungrouped number (the leftmost
\* position from which the match reaches the sign).
CapturedBeforeSign(w) ==
  IF Separated(w) \/ Len(DigitsOf(w)) <= 3 THEN DigitsOf(w)
  ELSE SubSeq(DigitsOf(w), Len(DigitsOf(w)) - 2, Len(DigitsOf(w)))

\* the matches of one pattern of amountPatterns, in text order
RECURSIVE AmountMatches(_, _, _)
AmountMatches(text, pat, i) ==
  IF i > Len(text) THEN <<>>
  ELSE
    LET sign == /\ pat = "sign" /\ text[i] \in Numbers
                /\ i + 1 <= Len(text) /\ text[i + 1] = "shekel"
        upto == /\ pat = "up to" /\ text[i] = "up to"
                /\ i + 1 <= Len(text) /\ text[i + 1] \in Numbers
        maxi == /\ pat = "maximum" /\ text[i] = "maximum"
                /\ i + 1 <= Len(text) /\ text[i + 1] \in Numbers
        here ==
          IF sign THEN
            <<[raw |-> CapturedBeforeSign(text[i]),
               numeric |-> parseFloat(CapturedBeforeSign(text[i])),
               position |-> i]>>
          ELSE IF upto \/ maxi THEN
            <<[raw |-> CapturedAfterKeyword(text[i + 1]),
               numeric |-> parseFloat(CapturedAfterKeyword(text[i + 1])),
               position |-> i]>>
          ELSE <<>>
    IN here \o AmountMatches(text, pat, i + 1)

\* the object {} that a benefit without amount reference gets: it has neither
\* value_state nor values
NoAmounts == [value_state |-> "undefined", values |-> <<>>]

\* extractAmounts with the patterns applied whether or not there is a schedule
extractAmountsUngated(text, hasSched) ==
  IF text = <<>> THEN
    [value_state |-> IF hasSched THEN "known" ELSE "unknown_schedule_required",
     values |-> <<>>]
  ELSE
    [value_state |-> IF hasSched THEN "known" ELSE "unknown_schedule_required",
     values |-> AmountMatches(text, "sign", 1) \o AmountMatches(text, "up to", 1)
                  \o AmountMatches(text, "maximum", 1)]

extractAmounts(text, hasSched) ==
  IF text = <<>> \/ ~hasSched THEN
    [value_state |-> IF hasSched THEN "known" ELSE "unknown_schedule_required",
     values |-> <<>>]
  ELSE
    [value_state |-> "known",
     values |-> AmountMatches(text, "sign", 1) \o AmountMatches(text, "up to", 1)
                  \o AmountMatches(text, "maximum", 1)]

\* ------------------------------------------------------------------------
\* Titles and summaries
\* ------------------------------------------------------------------------

\* Titles are sequences of characters: letters "A", "a", "b", "c", the digit
\* "1", the punctuation "-" and "/", the blank " ", the mark "RLM" (U+200F)
\* and "PFX", one of the generic Hebrew prefixes of fuzzyDeduplication.
normalizeHebrewText(text) == SelectSeq(text, LAMBDA c : c # "RLM")

\* a text of at most 200 characters is kept; a longer one is cut at the last
\* word boundary within 200 characters and gets an ellipsis
generateBenefitSummary(paragraph) ==
  IF TextLen(paragraph) <= SummaryLen THEN paragraph
  ELSE Prefix(paragraph, SummaryLen) \o <<"...">>

\* ------------------------------------------------------------------------
\* Harvest
\* ------------------------------------------------------------------------

\* The first n characters of a paragraph, as far as they identify it: whole
\* words, and at least the first one.
Probe(words, n) ==
  IF words = <<>> THEN <<>>
  ELSE IF Prefix(words, n) = <<>> THEN <<Head(words)>>
  ELSE Prefix(words, n)

\* The span built for a paragraph.  Of the fields of the evidence span the
\* model keeps the three that the validator reads.
enrichEvidenceSpan(quote, documentId, page) ==
  [document_id |-> documentId,
   page |-> IF page = 0 THEN 1 ELSE page,
   quote |-> quote]

\* the first page whose text includes the first 50 characters of the
\* paragraph, page 1 when there is none
RECURSIVE FindPage(_, _, _)
FindPage(pageTexts, paragraph, p) ==
  IF p > Len(pageTexts) THEN 1
  ELSE IF pageTexts[p] # <<>> /\ IsInfix(Probe(paragraph, PageProbeLen), pageTexts[p])
    THEN p
  ELSE FindPage(pageTexts, paragraph, p + 1)

\* the benefit built from paragraph i of a document
HarvestOne(chunk, i, documentId, pageTexts, hasSched) ==
  LET paragraph == chunk.words
      page == FindPage(pageTexts, paragraph, 1)
  IN [benefit_id |-> <<documentId, i>>,
      layer |-> detectBenefitLayer(paragraph),
      title |-> normalizeHebrewText(chunk.title),
      summary |-> generateBenefitSummary(paragraph),
      status |-> detectBenefitStatus(paragraph),
      spans |-> <<enrichEvidenceSpan(paragraph, documentId, page)>>,
      tags |-> {},
      amounts |-> IF hasAmountReference(paragraph)
                    THEN extractAmounts(paragraph, hasSched)
                    ELSE NoAmounts]

\* the loop of extractBenefits over the paragraphs from index i on, with the
\* set foundQuotes of the keys seen so far
RECURSIVE HarvestFrom(_, _, _, _, _, _)
HarvestFrom(chunks, i, foundQuotes, documentId, pageTexts, hasSched) ==
  IF i > Len(chunks) THEN <<>>
  ELSE
    LET paragraph == chunks[i].words
        normalizedKey == Probe(paragraph, QuoteKeyLen)
        skip == \/ paragraph = <<>>
                \/ TextLen(paragraph) < MinParagraphLen
                \/ TextLen(paragraph) > MaxParagraphLen
                \/ ~HasKeyword(paragraph, RIGHT_KEYWORDS)
                \/ normalizedKey \in foundQuotes
    IN IF skip
         THEN HarvestFrom(chunks, i + 1, foundQuotes, documentId, pageTexts, hasSched)
         ELSE <<HarvestOne(chunks[i], i, documentId, pageTexts, hasSched)>>
                \o HarvestFrom(chunks, i + 1, foundQuotes \cup {normalizedKey},
                               documentId, pageTexts, hasSched)

\* doc is a processed document: its text is the sequence of its paragraphs
\* and paragraph i is the text of page i
extractBenefits(doc, hasSched) ==
  IF doc.chunks = <<>> THEN <<>>
  ELSE HarvestFrom(doc.chunks, 1, {}, doc.document_id,
                   [i \in DOMAIN doc.chunks |-> doc.chunks[i].words], hasSched)

\* ------------------------------------------------------------------------
\* Missing requirements
\* ------------------------------------------------------------------------

DocTextLen(doc) ==
  TextLen(Flatten([i \in DOMAIN doc.chunks |-> doc.chunks[i].words]))

\* a document is unreadable when no processed document of its id has at least
\* MinReadableLen characters of text
Unreadable(doc, processedDocs) ==
  ~\E j \in DOMAIN processedDocs :
      /\ processedDocs[j].document_id = doc.document_id
      /\ processedDocs[j].chunks # <<>>
      /\ DocTextLen(processedDocs[j]) >= MinReadableLen

\* the requirements after schedule_required
OtherRequirements(documents, processedDocs) ==
  (IF \E d \in DOMAIN documents : documents[d].doc_type = "policy" THEN <<>>
   ELSE <<[code |-> "policy_not_found", severity |-> "warning"]>>)
  \o
  Flatten([d \in DOMAIN documents |->
             IF Unreadable(documents[d], processedDocs)
               THEN <<[code |-> "document_unreadable", severity |-> "warning"]>>
               ELSE <<>>])

\* detectMissingRequirements with a missing schedule as a blocker
detectMissingRequirementsBlocking(documents, processedDocs) ==
  (IF \E d \in DOMAIN documents : documents[d].doc_type = "schedule" THEN <<>>
   ELSE <<[code |-> "schedule_required", severity |-> "blocker"]>>)
  \o OtherRequirements(documents, processedDocs)

detectMissingRequirements(documents, processedDocs) ==
  (IF \E d \in DOMAIN documents : documents[d].doc_type = "schedule" THEN <<>>
   ELSE <<[code |-> "schedule_required", severity |-> "warning"]>>)
  \o OtherRequirements(documents, processedDocs)

\* ------------------------------------------------------------------------
\* Deduplication
\* ------------------------------------------------------------------------

toLowerCase(c) == IF c = "A" THEN "a" ELSE IF c = "U" THEN "u" ELSE c

\* the key of fuzzyDeduplication: punctuation and bidi marks, digits and
\* whitespace removed, lower case, one leading generic prefix stripped, cut
\* to 40 characters
FuzzyKey(title) ==
  LET a == SelectSeq(title, LAMBDA c : c \notin {"-", "RLM"})
      b == SelectSeq(a, LAMBDA c : c # "1")
      c == SelectSeq(b, LAMBDA x : x # " ")
      d == [i \in DOMAIN c |-> toLowerCase(c[i])]
      e == IF d # <<>> /\ Head(d) = "PFX" THEN Tail(d) ELSE d
  IN SubSeq(e, 1, Min(Len(e), FuzzyKeyLen))

\* the key of fallbackDeduplication: the first 50 characters, lower case,
\* everything but Hebrew letters, a-z and digits removed
FallbackKey(title) ==
  LET a == SubSeq(title, 1, Min(Len(title), FallbackKeyLen))
      b == [i \in DOMAIN a |-> toLowerCase(a[i])]
  IN SelectSeq(b, LAMBDA c : c \in {"a", "b", "c", "u", "1", "PFX"})

\* the spans of a duplicate appended without the test on their quotes
ConcatSpans(existing, newSpans) == existing \o newSpans

\* existing.evidence_set.spans after the spans of a duplicate were merged in:
\* the new spans whose quote no span of existing has
MergeSpans(existing, newSpans) ==
  existing \o SelectSeq(newSpans, LAMBDA ns :
                          ~\E k \in DOMAIN existing : existing[k].quote = ns.quote)

\* a lookup that finds a key only in the entry added last
SeenIndexLast(seen, key) ==
  IF seen # <<>> /\ seen[Len(seen)].key = key THEN Len(seen) ELSE 0

\* position in seen (a Map, in insertion order) of a key, 0 when absent
SeenIndex(seen, key) ==
  IF \E k \in DOMAIN seen : seen[k].key = key
    THEN CHOOSE k \in DOMAIN seen : seen[k].key = key
    ELSE 0

\* spans without empty quotes and without a quote seen before
RECURSIVE UniqueQuotes(_, _)
UniqueQuotes(spans, seen) ==
  IF spans = <<>> THEN <<>>
  ELSE IF Head(spans).quote = <<>> \/ Head(spans).quote \in seen
    THEN UniqueQuotes(Tail(spans), seen)
  ELSE <<Head(spans)>> \o UniqueQuotes(Tail(spans), seen \cup {Head(spans).quote})

\* the document ids of spans in order of first appearance (the keys of byDoc)
RECURSIVE DocOrder(_, _)
DocOrder(spans, seen) ==
  IF spans = <<>> THEN <<>>
  ELSE IF Head(spans).document_id \in seen THEN DocOrder(Tail(spans), seen)
  ELSE <<Head(spans).document_id>>
         \o DocOrder(Tail(spans), seen \cup {Head(spans).document_id})

\* arr.sort((a, b) => (a.page || 0) - (b.page || 0)): a stable sort by page
RECURSIVE InsertByPage(_, _)
InsertByPage(sorted, s) ==
  IF sorted = <<>> THEN <<s>>
  ELSE IF Head(sorted).page <= s.page THEN <<Head(sorted)>> \o InsertByPage(Tail(sorted), s)
  ELSE <<s>> \o sorted

RECURSIVE SortByPage(_)
SortByPage(arr) ==
  IF arr = <<>> THEN <<>>
  ELSE InsertByPage(SortByPage(SubSeq(arr, 1, Len(arr) - 1)), arr[Len(arr)])

\* the round-robin over the groups: round r takes element r of every group
\* that has one, until max spans are taken
RECURSIVE RoundRobin(_, _, _, _)
RoundRobin(groups, r, g, max) ==
  IF max = 0 \/ ~\E k \in DOMAIN groups : Len(groups[k]) >= r THEN <<>>
  ELSE IF g > Len(groups) THEN RoundRobin(groups, r + 1, 1, max)
  ELSE IF Len(groups[g]) >= r
    THEN <<groups[g][r]>> \o RoundRobin(groups, r, g + 1, max - 1)
  ELSE RoundRobin(groups, r, g + 1, max)

\* the first max spans with distinct quotes, in the order given
capEvidenceSpansFirst(spans, max) ==
  LET unique == UniqueQuotes(spans, {})
  IN SubSeq(unique, 1, Min(max, Len(unique)))

capEvidenceSpansWorker(spans, max) ==
  LET unique == UniqueQuotes(spans, {})
      docs == DocOrder(unique, {})
      byDoc == [k \in DOMAIN docs |->
                  SortByPage(SelectSeq(unique, LAMBDA s : s.document_id = docs[k]))]
  IN IF Len(unique) <= max THEN unique ELSE RoundRobin(byDoc, 1, 1, max)

\* the benefits of seen with their spans capped
CapAll(seen) ==
  [k \in DOMAIN seen |->
     IF Len(seen[k].b.spans) > MAX_EVIDENCE
       THEN [seen[k].b EXCEPT !.spans = capEvidenceSpansWorker(@, MAX_EVIDENCE)]
       ELSE seen[k].b]

\* the loop of fuzzyDeduplication: seen after the benefits from index i on
RECURSIVE FuzzyFold(_, _, _)
FuzzyFold(benefits, i, seen) ==
  IF i > Len(benefits) THEN seen
  ELSE
    LET benefit == benefits[i]
        key == FuzzyKey(benefit.title)
        k == SeenIndex(seen, key)
    IN IF key = <<>> THEN FuzzyFold(benefits, i + 1, seen)
       ELSE IF k = 0
         THEN FuzzyFold(benefits, i + 1, Append(seen, [key |-> key, b |-> benefit]))
       ELSE
         LET existing == seen[k].b
             merged ==
               [existing EXCEPT
                  !.summary = IF TextLen(benefit.summary) > TextLen(existing.summary)
                                THEN benefit.summary ELSE @,
                  !.spans = MergeSpans(@, benefit.spans),
                  !.tags = @ \cup benefit.tags]
         IN FuzzyFold(benefits, i + 1, [seen EXCEPT ![k].b = merged])

\* the loop of fuzzyDeduplication started at the second benefit
fuzzyDeduplicationFromSecond(benefits) == CapAll(FuzzyFold(benefits, 2, <<>>))

fuzzyDeduplication(benefits) == CapAll(FuzzyFold(benefits, 1, <<>>))

\* the loop of fallbackDeduplication, which stops once maxCount keys are seen
RECURSIVE FallbackFold(_, _, _, _)
FallbackFold(benefits, i, seen, maxCount) ==
  IF i > Len(benefits) THEN seen
  ELSE
    LET benefit == benefits[i]
        key == FallbackKey(benefit.title)
        k == SeenIndex(seen, key)
        next == IF k = 0 THEN Append(seen, [key |-> key, b |-> benefit])
                ELSE [seen EXCEPT ![k].b.spans = MergeSpans(@, benefit.spans)]
    IN IF Len(next) >= maxCount THEN next
       ELSE FallbackFold(benefits, i + 1, next, maxCount)

\* fallbackDeduplication without the break at maxCount keys
fallbackDeduplicationUnbounded(benefits, maxCount) ==
  CapAll(FallbackFold(benefits, 1, <<>>, Len(benefits) + 1))

fallbackDeduplication(benefits, maxCount) ==
  CapAll(FallbackFold(benefits, 1, <<>>, maxCount))

\* ------------------------------------------------------------------------
\* Inputs
\* ------------------------------------------------------------------------

\* The paragraphs a document can hold, each with the title the harvester
\* derives for it (its nearest heading, or generateBenefitTitle).
ChunkKinds ==
  { [title |-> <<"A">>, words |-> <<"entitled", "filler">>],
    [title |-> <<"a", "1">>,
     words |-> <<"subject to", "entitled", "up to", "5,000", "ILS">>],
    [title |-> <<"b">>,
     words |-> <<"benefit", "excluded", "filler", "filler", "5000", "shekel">>],
    [title |-> <<"b", "/">>, words |-> <<"service", "entitled", "filler">>],
    [title |-> <<"1">>, words |-> <<"entitled", "maximum", "300", "filler">>],
    [title |-> <<"c">>, words |-> <<"filler", "service">>] }

\* sequences over S of length n
SeqsOfLen(S, n) == [1..n -> S]

SeqsUpTo(S, n) == UNION {SeqsOfLen(S, k) : k \in 0..n}

\* what a document that is downloaded and parsed can hold when `budget`
\* paragraphs are left
Contents(budget) == SeqsUpTo(ChunkKinds, budget)

\* Two of them, for the runs of the worker loop: one paragraph, and
\* paragraphs that stay more than MAX_BENEFITS benefits.
WorkerContents(budget) ==
  LET kA == [title |-> <<"A">>, words |-> <<"entitled", "filler">>]
      kB == [title |-> <<"b">>,
             words |-> <<"benefit", "excluded", "filler", "filler", "5000", "shekel">>]
      kS == [title |-> <<"b", "/">>, words |-> <<"service", "entitled", "filler">>]
  IN { c \in {<<kA>>, SubSeq(<<kB, kS, kA>>, 1, MAX_BENEFITS + 1)} :
         Len(c) <= budget }

\* the doc_type of the rows of the documents table
DocTypes == {"policy", "schedule"}

\* the ids of runs that jobs name: "r1" is a row of the runs table, "r0" is not
RunIds == {"r0", "r1"}

\* ------------------------------------------------------------------------
\* State
\* ------------------------------------------------------------------------

VARIABLES
  queue,               \* the Redis list policy-processing, head first
  pushed,              \* number of jobs pushed by clients
  pc,                  \* where the worker is
  job,                 \* the job being processed
  run,                 \* the row of run "r1" in the runs table
  store,               \* the rows of the benefits table
  submitted,           \* the rows handed to insert, inserted or not
  documents,           \* stageIntake: the rows of the documents table
  docIndex,            \* stageIntake: the document the loop is at
  processedDocs,       \* intakeResult.documents
  hasSchedule,         \* intakeResult.hasSchedule
  missingRequirements, \* intakeResult.missingRequirements
  benefits,            \* harvestResult.benefits
  normalizedBenefits,  \* normalizeResult.normalizedBenefits
  normalizePath,       \* which branch of stageNormalize produced them
  serviceRequests,     \* the bodies posted to the merge service
  validatedBenefits,   \* validateResult.validatedBenefits
  qualityMetrics,      \* validateResult.qualityMetrics
  thrown,              \* the error on its way to a catch block
  lastJob,             \* the job processed last and how processJob ended
  call                 \* a function applied on its own: arguments and results

vars == <<queue, pushed, pc, job, run, store, submitted, call, documents, docIndex,
          processedDocs, hasSchedule, missingRequirements, benefits,
          normalizedBenefits, normalizePath, serviceRequests, validatedBenefits,
          qualityMetrics, thrown, lastJob>>

pipelineVars == <<documents, docIndex, processedDocs, hasSchedule, missingRequirements,
                  benefits, normalizedBenefits, normalizePath, serviceRequests,
                  validatedBenefits, qualityMetrics>>

\* no function is applied on its own while the worker runs
NoCall == [fn |-> "none"]

NoJob == [run_id |-> "none", attempt |-> 0]
Unset == [set |-> FALSE]

\* the state before any job was pushed
WorkerInit ==
  /\ queue = <<>>
  /\ pushed = 0
  /\ pc = "idle"
  /\ job = NoJob
  /\ run = [status |-> "pending", stage |-> "none", error_message |-> FALSE,
            missing_requirements |-> <<>>, quality_metrics |-> Unset]
  /\ store = <<>>
  /\ submitted = <<>>
  /\ documents = <<>>
  /\ docIndex = 0
  /\ processedDocs = <<>>
  /\ hasSchedule = FALSE
  /\ missingRequirements = <<>>
  /\ benefits = <<>>
  /\ normalizedBenefits = <<>>
  /\ normalizePath = "none"
  /\ serviceRequests = <<>>
  /\ validatedBenefits = [valid |-> <<>>, invalid |-> <<>>]
  /\ qualityMetrics = Unset
  /\ thrown = "none"
  /\ lastJob = [run_id |-> "none", attempt |-> 0, pipeline |-> FALSE,
                outcome |-> "none"]
  /\ call = NoCall

\* ------------------------------------------------------------------------
\* Worker loop and processJob
\* ------------------------------------------------------------------------

\* A client pushes a job (lpush).  Pushes are taken while the worker is
\* between jobs: the worker reads the queue only there.
Enqueue ==
  /\ pc = "idle"
  /\ pushed < MaxJobs
  /\ \E r \in RunIds : queue' = <<[run_id |-> r, attempt |-> 1]>> \o queue
  /\ pushed' = pushed + 1
  /\ UNCHANGED <<pc, job, run, store, submitted, call, pipelineVars, thrown, lastJob>>

\* startWorker: rpop takes the job at the tail
PopJob ==
  /\ pc = "idle"
  /\ queue # <<>>
  /\ job' = queue[Len(queue)]
  /\ queue' = SubSeq(queue, 1, Len(queue) - 1)
  /\ pc' = "job"
  /\ UNCHANGED <<pushed, run, store, submitted, call, pipelineVars, thrown, lastJob>>

\* processJob: the select on runs returns an error
RunFetchError ==
  /\ pc = "job"
  /\ thrown' = "Failed to fetch run"
  /\ lastJob' = [run_id |-> job.run_id, attempt |-> job.attempt,
                 pipeline |-> FALSE, outcome |-> "running"]
  /\ pc' = "job_catch"
  /\ UNCHANGED <<queue, pushed, job, run, store, submitted, call, pipelineVars>>

\* processJob: no such run
RunNotFound ==
  /\ pc = "job"
  /\ job.run_id # "r1"
  /\ lastJob' = [run_id |-> job.run_id, attempt |-> job.attempt,
                 pipeline |-> FALSE, outcome |-> "not_found"]
  /\ pc' = "idle"
  /\ job' = NoJob
  /\ UNCHANGED <<queue, pushed, run, store, submitted, call, pipelineVars, thrown>>

\* processJob: the run is completed or failed already
RunTerminalSkip ==
  /\ pc = "job"
  /\ job.run_id = "r1"
  /\ run.status \in {"completed", "failed"}
  /\ lastJob' = [run_id |-> job.run_id, attempt |-> job.attempt,
                 pipeline |-> FALSE, outcome |-> "skipped"]
  /\ pc' = "idle"
  /\ job' = NoJob
  /\ UNCHANGED <<queue, pushed, run, store, submitted, call, pipelineVars, thrown>>

\* processJob without the return at a completed or failed run
StartPipelineUnchecked ==
  /\ pc = "job"
  /\ job.run_id = "r1"
  /\ lastJob' = [run_id |-> job.run_id, attempt |-> job.attempt,
                 pipeline |-> TRUE, outcome |-> "running"]
  /\ pc' = "intake"
  /\ UNCHANGED <<queue, pushed, job, run, store, submitted, call, pipelineVars, thrown>>

\* processJob calls processPolicyPipeline
StartPipeline ==
  /\ pc = "job"
  /\ job.run_id = "r1"
  /\ run.status \notin {"completed", "failed"}
  /\ lastJob' = [run_id |-> job.run_id, attempt |-> job.attempt,
                 pipeline |-> TRUE, outcome |-> "running"]
  /\ pc' = "intake"
  /\ UNCHANGED <<queue, pushed, job, run, store, submitted, call, pipelineVars, thrown>>

\* the catch block of processJob; startWorker catches what it rethrows
JobCatch ==
  /\ pc = "job_catch"
  /\ queue' = IF job.attempt < MAX_RETRIES
                THEN <<[run_id |-> job.run_id, attempt |-> job.attempt + 1]>> \o queue
                ELSE queue
  /\ lastJob' = [lastJob EXCEPT !.outcome = "failed"]
  /\ pc' = "idle"
  /\ job' = NoJob
  /\ thrown' = "none"
  /\ UNCHANGED <<pushed, run, store, submitted, call, pipelineVars>>

\* ------------------------------------------------------------------------
\* Pipeline stages
\* ------------------------------------------------------------------------

\* the row of the run after updateRunStatus(run_id, status, stage)
updateRunStatus(status, stage) == [run EXCEPT !.status = status, !.stage = stage]

HasScheduleDoc(docs) == \E d \in DOMAIN docs : docs[d].doc_type = "schedule"

\* stageIntake cannot read the documents table
IntakeFetchError ==
  /\ pc = "intake"
  /\ run' = updateRunStatus("queued", "intake")
  /\ thrown' = "Failed to fetch documents"
  /\ pc' = "pipeline_catch"
  /\ UNCHANGED <<queue, pushed, job, store, submitted, call, pipelineVars, lastJob>>

\* stageIntake finds no row for the run
IntakeNoDocuments ==
  /\ pc = "intake"
  /\ run' = updateRunStatus("queued", "intake")
  /\ thrown' = "No documents found for this run"
  /\ pc' = "pipeline_catch"
  /\ UNCHANGED <<queue, pushed, job, store, submitted, call, pipelineVars, lastJob>>

\* stageIntake reads the rows of the run and looks for a schedule among them
IntakeBegin ==
  /\ pc = "intake"
  /\ run' = updateRunStatus("queued", "intake")
  /\ \E n \in 1..MaxDocs : \E types \in [1..n -> DocTypes] :
       documents' = [i \in 1..n |-> [document_id |-> i, doc_type |-> types[i]]]
  /\ hasSchedule' = HasScheduleDoc(documents')
  /\ docIndex' = 1
  /\ pc' = "intake_docs"
  /\ UNCHANGED <<queue, pushed, job, store, submitted, call, processedDocs,
                 missingRequirements, benefits, normalizedBenefits, normalizePath,
                 serviceRequests, validatedBenefits, qualityMetrics, thrown, lastJob>>

IntakeLoopFrame ==
  UNCHANGED <<queue, pushed, job, run, store, submitted, call, documents, hasSchedule,
              missingRequirements, benefits, normalizedBenefits, normalizePath,
              serviceRequests, validatedBenefits, qualityMetrics, thrown, lastJob>>

\* the loop of stageIntake: the download of the document fails
IntakeDownloadError ==
  /\ pc = "intake_docs"
  /\ docIndex <= Len(documents)
  /\ docIndex' = docIndex + 1
  /\ UNCHANGED <<pc, processedDocs>>
  /\ IntakeLoopFrame

\* the loop of stageIntake: pdf-parse throws
IntakeParseError ==
  /\ pc = "intake_docs"
  /\ docIndex <= Len(documents)
  /\ docIndex' = docIndex + 1
  /\ UNCHANGED <<pc, processedDocs>>
  /\ IntakeLoopFrame

\* paragraphs in the documents processed so far
ChunksUsed == SumLen([i \in DOMAIN processedDocs |-> Len(processedDocs[i].chunks)])

\* the loop of stageIntake: the document is downloaded and parsed
IntakeDocumentFrom(contents) ==
  /\ pc = "intake_docs"
  /\ docIndex <= Len(documents)
  /\ \E chunks \in contents :
       processedDocs' = Append(processedDocs,
                               [document_id |-> documents[docIndex].document_id,
                                doc_type |-> documents[docIndex].doc_type,
                                chunks |-> chunks,
                                pages |-> IF chunks = <<>> THEN 1 ELSE Len(chunks)])
  /\ docIndex' = docIndex + 1
  /\ UNCHANGED pc
  /\ IntakeLoopFrame

IntakeDocument == IntakeDocumentFrom(Contents(MaxChunks - ChunksUsed))

WorkerIntakeDocument == IntakeDocumentFrom(WorkerContents(MaxChunks - ChunksUsed))

\* the end of stageIntake, and the two checks of processPolicyPipeline on its
\* result
IntakeFinish ==
  /\ pc = "intake_docs"
  /\ docIndex > Len(documents)
  /\ LET missing == detectMissingRequirements(documents, processedDocs)
         blockers == SelectSeq(missing, LAMBDA m : m.severity = "blocker")
     IN /\ missingRequirements' = missing
        /\ run' = [updateRunStatus("queued", "intake") EXCEPT
                     !.missing_requirements = [i \in DOMAIN missing |-> missing[i].code]]
        /\ thrown' = IF processedDocs = <<>> THEN "No documents could be processed"
                     ELSE IF blockers # <<>> THEN "Blocking issues"
                     ELSE "none"
        /\ pc' = IF processedDocs = <<>> \/ blockers # <<>>
                   THEN "pipeline_catch" ELSE "map"
  /\ UNCHANGED <<queue, pushed, job, store, submitted, call, documents, docIndex,
                 processedDocs, hasSchedule, benefits, normalizedBenefits,
                 normalizePath, serviceRequests, validatedBenefits, qualityMetrics,
                 lastJob>>

\* stageMap without its call of updateRunStatus
StageMapSilent ==
  /\ pc = "map"
  /\ pc' = "harvest"
  /\ UNCHANGED <<queue, pushed, job, run, store, submitted, call, pipelineVars, thrown,
                 lastJob>>

\* stageMap counts headings and clause references; it changes the run's stage
StageMap ==
  /\ pc = "map"
  /\ run' = updateRunStatus("queued", "map")
  /\ pc' = "harvest"
  /\ UNCHANGED <<queue, pushed, job, store, submitted, call, pipelineVars, thrown, lastJob>>

StageHarvest ==
  /\ pc = "harvest"
  /\ run' = updateRunStatus("queued", "harvest")
  /\ benefits' = Flatten([i \in DOMAIN processedDocs |->
                            extractBenefits(processedDocs[i], hasSchedule)])
  /\ pc' = "normalize"
  /\ UNCHANGED <<queue, pushed, job, store, submitted, call, documents, docIndex,
                 processedDocs, hasSchedule, missingRequirements, normalizedBenefits,
                 normalizePath, serviceRequests, validatedBenefits, qualityMetrics,
                 thrown, lastJob>>

UntitledBenefit == <<"U">>

\* step 1 of stageNormalize
BasicNormalize(benefit, hasSched) ==
  [benefit EXCEPT
     !.title = IF @ = <<>> THEN UntitledBenefit ELSE normalizeHebrewText(@),
     !.summary = normalizeHebrewText(@),
     !.amounts = IF hasAmountReference(benefit.summary) /\ ~hasSched
                   THEN [value_state |-> "unknown_schedule_required", values |-> <<>>]
                   ELSE @]

\* The objects of step 1 share their evidence_set with the harvested benefits:
\* a harvested benefit sees the spans that a merge or a cap assigns to the
\* object made from it.
AliasSpans(harvested, objs) ==
  [i \in DOMAIN harvested |->
     IF \E k \in DOMAIN objs : objs[k].benefit_id = harvested[i].benefit_id
       THEN LET k == CHOOSE k \in DOMAIN objs :
                       objs[k].benefit_id = harvested[i].benefit_id
            IN [harvested[i] EXCEPT !.spans = objs[k].spans]
       ELSE harvested[i]]

\* what the merge service may answer with, given the list sent to it
ServiceLists(sent) ==
  { SubSeq(sent, 1, MAX_BENEFITS),
    <<>>,
    [sent EXCEPT ![1].spans = <<>>],
    [sent EXCEPT ![1].spans[1].page = -1],
    [sent EXCEPT ![1].spans[1].page = 0],
    [sent EXCEPT ![1].spans[1].quote = <<>>],
    [sent EXCEPT ![1].spans[1].document_id = 0] }

\* the body of the POST to the merge service
ServiceRequest(list) == [benefits |-> list, maxBenefits |-> MAX_BENEFITS]

\* step 1 only: the list of stageNormalize had the fuzzy pass been left out
NoFuzzyPass == [i \in DOMAIN benefits |-> BasicNormalize(benefits[i], hasSchedule)]

FuzzyPass == fuzzyDeduplication([i \in DOMAIN benefits |->
                                   BasicNormalize(benefits[i], hasSchedule)])

NormalizeFrame ==
  UNCHANGED <<queue, pushed, job, store, submitted, call, documents, docIndex,
              processedDocs, hasSchedule, missingRequirements, validatedBenefits,
              qualityMetrics, thrown, lastJob>>

\* stageNormalize, the fuzzy pass leaves at most MAX_BENEFITS benefits
NormalizeLocal ==
  /\ pc = "normalize"
  /\ Len(FuzzyPass) <= MAX_BENEFITS
  /\ run' = updateRunStatus("queued", "normalize")
  /\ normalizedBenefits' = FuzzyPass
  /\ benefits' = AliasSpans(benefits, FuzzyPass)
  /\ normalizePath' = "fuzzy"
  /\ UNCHANGED serviceRequests
  /\ pc' = "validate"
  /\ NormalizeFrame

\* stageNormalize, the merge service answers with a list of benefits
NormalizeExternal ==
  /\ pc = "normalize"
  /\ Len(FuzzyPass) > MAX_BENEFITS
  /\ run' = updateRunStatus("queued", "normalize")
  /\ serviceRequests' = Append(serviceRequests, ServiceRequest(FuzzyPass))
  /\ \E answer \in ServiceLists(FuzzyPass) : normalizedBenefits' = answer
  /\ benefits' = AliasSpans(benefits, FuzzyPass)
  /\ normalizePath' = "external"
  /\ pc' = "validate"
  /\ NormalizeFrame

\* stageNormalize, the merge service answers ok without a list of benefits
NormalizeExternalNoList ==
  /\ pc = "normalize"
  /\ Len(FuzzyPass) > MAX_BENEFITS
  /\ run' = updateRunStatus("queued", "normalize")
  /\ normalizedBenefits' = FuzzyPass
  /\ benefits' = AliasSpans(benefits, FuzzyPass)
  /\ normalizePath' = "external_no_list"
  /\ serviceRequests' = Append(serviceRequests, ServiceRequest(FuzzyPass))
  /\ pc' = "validate"
  /\ NormalizeFrame

\* stageNormalize, the merge service answers with an error status or the
\* call throws
NormalizeFallback ==
  /\ pc = "normalize"
  /\ Len(FuzzyPass) > MAX_BENEFITS
  /\ run' = updateRunStatus("queued", "normalize")
  /\ normalizedBenefits' = fallbackDeduplication(FuzzyPass, MAX_BENEFITS)
  /\ benefits' = AliasSpans(AliasSpans(benefits, FuzzyPass),
                            fallbackDeduplication(FuzzyPass, MAX_BENEFITS))
  /\ \E how \in {"fallback_status", "fallback_error"} : normalizePath' = how
  /\ serviceRequests' = Append(serviceRequests, ServiceRequest(FuzzyPass))
  /\ pc' = "validate"
  /\ NormalizeFrame

StageNormalize ==
  \/ NormalizeLocal
  \/ NormalizeExternal
  \/ NormalizeExternalNoList
  \/ NormalizeFallback

\* stageValidate: s.quote && s.document_id && s.page
SpanComplete(s) == s.quote # <<>> /\ s.document_id # 0 /\ s.page # 0

HasEvidence(b) ==
  /\ Len(b.spans) > 0
  /\ \A k \in DOMAIN b.spans : SpanComplete(b.spans[k])

\* the filter of stageValidate left out
benefitsUnfiltered(list) == list

benefitsWithEvidence(list) == SelectSeq(list, LAMBDA b : HasEvidence(b))

\* only the benefits with no span at all
benefitsWithoutSpans(list) == SelectSeq(list, LAMBDA b : Len(b.spans) = 0)

benefitsWithoutEvidence(list) ==
  SelectSeq(list, LAMBDA b :
              Len(b.spans) = 0 \/ ~\A k \in DOMAIN b.spans : SpanComplete(b.spans[k]))

\* a ratio n / d is the pair <<n, d>> in lowest terms; 0 is <<0, 1>>
RECURSIVE Gcd(_, _)
Gcd(a, b) == IF b = 0 THEN a ELSE Gcd(b, a % b)

Ratio(n, d) == IF d = 0 \/ n = 0 THEN <<0, 1>> ELSE <<n \div Gcd(n, d), d \div Gcd(n, d)>>

evidenceCoverageRatio(list) ==
  IF Len(list) > 0 THEN Ratio(Len(benefitsWithEvidence(list)), Len(list))
  ELSE Ratio(0, 1)

\* the rejection warning pushed without the test on the number of rejected
\* benefits
ValidateWarningsAlways(missing, list) ==
  (IF \E m \in DOMAIN missing : missing[m].code = "schedule_required"
     THEN <<[kind |-> "schedule_missing", count |-> 0]>> ELSE <<>>)
  \o <<[kind |-> "rejected", count |-> Len(benefitsWithoutEvidence(list))]>>

ValidateWarnings(missing, list) ==
  (IF \E m \in DOMAIN missing : missing[m].code = "schedule_required"
     THEN <<[kind |-> "schedule_missing", count |-> 0]>> ELSE <<>>)
  \o
  (IF Len(benefitsWithoutEvidence(list)) > 0
     THEN <<[kind |-> "rejected", count |-> Len(benefitsWithoutEvidence(list))]>>
     ELSE <<>>)

StageValidate ==
  /\ pc = "validate"
  /\ run' = updateRunStatus("queued", "validate")
  /\ validatedBenefits' = [valid |-> benefitsWithEvidence(normalizedBenefits),
                           invalid |-> benefitsWithoutEvidence(normalizedBenefits)]
  /\ qualityMetrics' =
       [set |-> TRUE,
        evidence_coverage_ratio |-> evidenceCoverageRatio(normalizedBenefits),
        benefits_count |-> Len(benefitsWithEvidence(normalizedBenefits)),
        warnings |-> ValidateWarnings(missingRequirements, normalizedBenefits)]
  /\ pc' = "export"
  /\ UNCHANGED <<queue, pushed, job, store, submitted, call, documents, docIndex,
                 processedDocs, hasSchedule, missingRequirements, benefits,
                 normalizedBenefits, normalizePath, serviceRequests, thrown,
                 lastJob>>

\* the row stageExport builds for a benefit
ExportRow(b) ==
  [benefit_id |-> b.benefit_id,
   run_id |-> "r1",
   layer |-> b.layer,
   title |-> b.title,
   summary |-> b.summary,
   status |-> IF b.status = "excluded" THEN "excluded" ELSE "included",
   spans |-> b.spans,
   tags |-> b.tags,
   amounts |-> b.amounts]

\* number of batches of stageExport for n benefits
BatchCount(n) == (n + batchSize - 1) \div batchSize

\* the rows of batch k
Batch(rows, k) == SubSeq(rows, (k - 1) * batchSize + 1, Min(Len(rows), k * batchSize))

\* stageExport; failed says which batch inserts return an error
StageExport ==
  /\ pc = "export"
  /\ LET valid == validatedBenefits.valid
         rows == [i \in DOMAIN valid |-> ExportRow(valid[i])]
     IN IF valid = <<>>
          THEN /\ run' = updateRunStatus("queued", "export")
               /\ UNCHANGED <<store, submitted>>
          ELSE \E failed \in SUBSET (1..BatchCount(Len(valid))) :
                 /\ submitted' = submitted \o rows
                 /\ store' = store \o Flatten([k \in 1..BatchCount(Len(valid)) |->
                                                 IF k \in failed THEN <<>>
                                                 ELSE Batch(rows, k)])
                 /\ run' = [updateRunStatus("queued", "export") EXCEPT
                              !.quality_metrics =
                                 [set |-> TRUE,
                                  total_pages_processed |->
                                    SumLen([i \in DOMAIN processedDocs |->
                                              processedDocs[i].pages]),
                                  extraction_confidence |->
                                    qualityMetrics.evidence_coverage_ratio,
                                  validation_score |->
                                    qualityMetrics.evidence_coverage_ratio]]
  /\ pc' = "complete"
  /\ UNCHANGED <<queue, pushed, job, call, pipelineVars, thrown, lastJob>>

\* processPolicyPipeline after stageExport returned
MarkCompleted ==
  /\ pc = "complete"
  /\ run' = updateRunStatus("completed", "export")
  /\ lastJob' = [lastJob EXCEPT !.outcome = "completed"]
  /\ pc' = "idle"
  /\ job' = NoJob
  /\ UNCHANGED <<queue, pushed, store, submitted, call, pipelineVars, thrown>>

\* the catch block of processPolicyPipeline, which rethrows
PipelineCatch ==
  /\ pc = "pipeline_catch"
  /\ run' = [run EXCEPT !.status = "failed", !.stage = "intake", !.error_message = TRUE]
  /\ pc' = "job_catch"
  /\ UNCHANGED <<queue, pushed, job, store, submitted, call, pipelineVars, thrown, lastJob>>

\* One job for the run is in the queue.
Init ==
  /\ queue = <<[run_id |-> "r1", attempt |-> 1]>>
  /\ pushed = 1
  /\ pc = "idle"
  /\ job = NoJob
  /\ run = [status |-> "pending", stage |-> "none", error_message |-> FALSE,
            missing_requirements |-> <<>>, quality_metrics |-> Unset]
  /\ store = <<>>
  /\ submitted = <<>>
  /\ documents = <<>>
  /\ docIndex = 0
  /\ processedDocs = <<>>
  /\ hasSchedule = FALSE
  /\ missingRequirements = <<>>
  /\ benefits = <<>>
  /\ normalizedBenefits = <<>>
  /\ normalizePath = "none"
  /\ serviceRequests = <<>>
  /\ validatedBenefits = [valid |-> <<>>, invalid |-> <<>>]
  /\ qualityMetrics = Unset
  /\ thrown = "none"
  /\ lastJob = [run_id |-> "none", attempt |-> 0, pipeline |-> FALSE,
                outcome |-> "none"]
  /\ call = NoCall

\* the steps of the pipeline after stageIntake
Stages ==
  \/ StageMap
  \/ StageHarvest
  \/ StageNormalize
  \/ StageValidate
  \/ StageExport
  \/ MarkCompleted
  \/ PipelineCatch

\* the processing of the job of Init, over all lists of documents
Next ==
  \/ PopJob
  \/ RunTerminalSkip
  \/ StartPipeline
  \/ IntakeFetchError
  \/ IntakeNoDocuments
  \/ IntakeBegin
  \/ IntakeDownloadError
  \/ IntakeParseError
  \/ IntakeDocument
  \/ IntakeFinish
  \/ Stages
  \/ JobCatch

Spec == Init /\ [][Next]_vars

\* the worker loop with clients pushing jobs and with the tables failing
WorkerNext ==
  \/ Enqueue
  \/ PopJob
  \/ RunFetchError
  \/ RunNotFound
  \/ RunTerminalSkip
  \/ StartPipeline
  \/ IntakeFetchError
  \/ IntakeNoDocuments
  \/ IntakeBegin
  \/ IntakeDownloadError
  \/ IntakeParseError
  \/ WorkerIntakeDocument
  \/ IntakeFinish
  \/ Stages
  \/ JobCatch

WorkerSpec == WorkerInit /\ [][WorkerNext]_vars

\* ------------------------------------------------------------------------
\* The deduplication functions applied on their own
\* ------------------------------------------------------------------------

Span(d, p, q) == [document_id |-> d, page |-> p, quote |-> <<q>>]

\* Benefits as the deduplications read them: title, summary, tags and spans.
\* "A", "a 1" and "a-" have the fuzzy key "a"; "b" and "b/" have the fallback
\* key "b" and two fuzzy keys; "1" has the empty fuzzy key.  The summaries of
\* the first and the third are of equal length.  The spans of a benefit have
\* distinct quotes, as those of a harvested or merged benefit have.
BenefitKinds ==
  { [benefit_id |-> <<0, 0>>, title |-> <<"A">>, summary |-> <<"entitled">>,
     tags |-> {"t1"},
     spans |-> <<Span(1, 2, "q1"), Span(1, 1, "q2"), Span(2, 1, "q3")>>],
    [benefit_id |-> <<0, 0>>, title |-> <<"a", "1">>,
     summary |-> <<"entitled", "filler">>, tags |-> {"t2"},
     spans |-> <<Span(2, 3, "q4"), Span(3, 1, "q5"), Span(1, 3, "q6")>>],
    [benefit_id |-> <<0, 0>>, title |-> <<"a", "-">>, summary |-> <<"excluded">>,
     tags |-> {},
     spans |-> <<Span(1, 1, "q2"), Span(3, 2, "q7")>>],
    [benefit_id |-> <<0, 0>>, title |-> <<"b">>, summary |-> <<"service">>,
     tags |-> {"t1"}, spans |-> <<Span(1, 1, "q8")>>],
    [benefit_id |-> <<0, 0>>, title |-> <<"b", "/">>, summary |-> <<"benefit", "filler">>,
     tags |-> {}, spans |-> <<Span(2, 2, "q9")>>],
    [benefit_id |-> <<0, 0>>, title |-> <<"1">>, summary |-> <<"entitled">>,
     tags |-> {"t3"}, spans |-> <<Span(2, 1, "q10")>>] }

\* the lists of at most MaxList of them, each benefit with an id of its own
\* and with the status and the layer of its text
BenefitLists ==
  { [i \in DOMAIN ks |->
       [benefit_id |-> <<0, i>>,
        title |-> ks[i].title,
        summary |-> ks[i].summary,
        status |-> detectBenefitStatus(ks[i].summary),
        layer |-> detectBenefitLayer(ks[i].summary),
        tags |-> ks[i].tags,
        spans |-> ks[i].spans]] :
      ks \in SeqsUpTo(BenefitKinds, MaxList) }

\* The objects of a list after a deduplication ran on it: seen holds the
\* objects of the list themselves, so a benefit that a result object was
\* made from is that result object.
AliasAll(input, objs) ==
  [i \in DOMAIN input |->
     IF \E k \in DOMAIN objs : objs[k].benefit_id = input[i].benefit_id
       THEN objs[CHOOSE k \in DOMAIN objs : objs[k].benefit_id = input[i].benefit_id]
       ELSE input[i]]

\* the worker between jobs, nothing pushed yet
Idle ==
  /\ queue = <<>>
  /\ pushed = 0
  /\ pc = "idle"
  /\ job = NoJob
  /\ run = [status |-> "pending", stage |-> "none", error_message |-> FALSE,
            missing_requirements |-> <<>>, quality_metrics |-> Unset]
  /\ store = <<>>
  /\ submitted = <<>>
  /\ documents = <<>>
  /\ docIndex = 0
  /\ processedDocs = <<>>
  /\ hasSchedule = FALSE
  /\ missingRequirements = <<>>
  /\ benefits = <<>>
  /\ normalizedBenefits = <<>>
  /\ normalizePath = "none"
  /\ serviceRequests = <<>>
  /\ validatedBenefits = [valid |-> <<>>, invalid |-> <<>>]
  /\ qualityMetrics = Unset
  /\ thrown = "none"
  /\ lastJob = [run_id |-> "none", attempt |-> 0, pipeline |-> FALSE,
                outcome |-> "none"]

IdleFrame ==
  UNCHANGED <<queue, pushed, pc, job, run, store, submitted, pipelineVars, thrown,
              lastJob>>

FunctionInit ==
  /\ Idle
  /\ \E list \in BenefitLists : call = [fn |-> "input", benefits |-> list]

CallFuzzy ==
  /\ call.fn = "input"
  /\ call' = [fn |-> "fuzzyDeduplication",
              benefits |-> call.benefits,
              after |-> AliasAll(call.benefits, fuzzyDeduplication(call.benefits)),
              result |-> fuzzyDeduplication(call.benefits)]
  /\ IdleFrame

\* fuzzyDeduplication on its own result
CallFuzzyAgain ==
  /\ call.fn = "fuzzyDeduplication"
  /\ call' = [fn |-> "fuzzyDeduplication twice",
              benefits |-> call.benefits,
              first |-> call.result,
              result |-> fuzzyDeduplication(call.result)]
  /\ IdleFrame

\* fuzzyDeduplication on a list and on a permutation of it
CallFuzzyPermuted ==
  /\ call.fn = "input"
  /\ \E p \in Permutations(DOMAIN call.benefits) :
       LET permuted == [i \in DOMAIN call.benefits |-> call.benefits[p[i]]]
       IN call' = [fn |-> "fuzzyDeduplication permuted",
                   benefits |-> call.benefits,
                   permuted |-> permuted,
                   result |-> fuzzyDeduplication(call.benefits),
                   resultPermuted |-> fuzzyDeduplication(permuted)]
  /\ IdleFrame

CallFallback ==
  /\ call.fn = "input"
  /\ \E maxCount \in 1..MaxList :
       call' = [fn |-> "fallbackDeduplication",
                benefits |-> call.benefits,
                maxCount |-> maxCount,
                after |-> AliasAll(call.benefits,
                                   fallbackDeduplication(call.benefits, maxCount)),
                result |-> fallbackDeduplication(call.benefits, maxCount)]
  /\ IdleFrame

\* capEvidenceSpansWorker on all the spans of a list
CallCap ==
  /\ call.fn = "input"
  /\ LET spans == Flatten([i \in DOMAIN call.benefits |-> call.benefits[i].spans])
     IN call' = [fn |-> "capEvidenceSpansWorker",
                 spans |-> spans,
                 result |-> capEvidenceSpansWorker(spans, MAX_EVIDENCE)]
  /\ IdleFrame

FunctionNext ==
  \/ CallFuzzy
  \/ CallFuzzyAgain
  \/ CallFuzzyPermuted
  \/ CallFallback
  \/ CallCap

FunctionSpec == FunctionInit /\ [][FunctionNext]_vars

\* ------------------------------------------------------------------------
\* The structural index applied on its own: clause references and headings
\* ------------------------------------------------------------------------

\* A page text is a sequence of lines (the parts between "\n").  A line is
\* what trim leaves of it (text), the white space before that (indent) and
\* the number of its characters that are there (length: all of them, unless
\* a substring cut the line).  The texts of lines, with the Hebrew ones
\* written in Latin letters:
\*   ""                                     an empty line, or with an indent
\*                                          a line of white space
\*   "COVERAGE DETAILS"
\*   "1. General Terms"
\*   "perek 2 ..."                          "chapter 2 applies to all claims"
\*   "The insured is entitled ..."          a paragraph
\*   "Section 4 entitles ... following:"    a paragraph that ends with a colon
\*   "kisui ze ... zakai ..."               a paragraph of 150 characters that
\*                                          starts with the topic word kisui
CapsLine == "COVERAGE DETAILS"
NumberedLine == "1. General Terms"
ChapterLine == "perek 2 ..."
PlainQuote == "The insured is entitled ..."
SectionQuote == "Section 4 entitles ... following:"
TopicQuote == "kisui ze ... zakai ..."

TrimLen(s) ==
  CASE s = "" -> 0
    [] s = CapsLine -> 16
    [] s = NumberedLine -> 16
    [] s = ChapterLine -> 22
    [] s = PlainQuote -> 52
    [] s = SectionQuote -> 48
    [] s = TopicQuote -> 150

Line(s, indent) == [text |-> s, indent |-> indent, length |-> indent + TrimLen(s)]

LineKinds ==
  { Line("", 0), Line("", 1), Line(CapsLine, 0), Line(NumberedLine, 0), Line(ChapterLine, 0),
    Line(PlainQuote, 0), Line(PlainQuote, 2),
    Line(SectionQuote, 0), Line(SectionQuote, 2),
    Line(TopicQuote, 2) }

Quotes == {PlainQuote, SectionQuote, TopicQuote}

\* The texts of at most MaxLines lines.  A page text went through
\* normalizeHebrewText, which ends with a trim: it neither starts nor ends
\* with white space.
Texts ==
  { t \in SeqsUpTo(LineKinds, MaxLines) \ {<<>>} :
      /\ t[1].indent = 0 /\ t[1].text # ""
      /\ t[Len(t)].text # "" }

\* line.trim().length of a line, cut or not
Shown(line) == IF line.length > line.indent THEN line.length - line.indent ELSE 0

\* position of line i: position += line.length + 1 for every line before it
RECURSIVE LineStart(_, _)
LineStart(lines, i) ==
  IF i = 1 THEN 0 ELSE LineStart(lines, i - 1) + lines[i - 1].length + 1

\* text.length
TextLength(lines) ==
  IF lines = <<>> THEN 0 ELSE LineStart(lines, Len(lines)) + lines[Len(lines)].length

\* fullText.indexOf(quote): the quotes of the model are whole paragraphs of
\* one line, none of which occurs inside another line; -1 when not found
indexOf(lines, quote) ==
  LET found == { i \in DOMAIN lines :
                   lines[i].text = quote /\ Shown(lines[i]) = TrimLen(quote) }
  IN IF found = {} THEN -1
     ELSE LET i == CHOOSE i \in found : \A j \in found : i <= j
          IN LineStart(lines, i) + lines[i].indent

\* text.substring(0, n): the lines that start before n, the last one cut
RECURSIVE substring(_, _)
substring(lines, n) ==
  IF lines = <<>> THEN <<>>
  ELSE IF n <= Head(lines).length THEN <<[Head(lines) EXCEPT !.length = n]>>
  ELSE <<Head(lines)>> \o substring(Tail(lines), n - Head(lines).length - 1)

\* CLAUSE_PATTERNS in the order of Object.entries: Hebrew, then English
CLAUSE_PATTERNS ==
  << [language |-> "hebrew", type |-> "section"],
     [language |-> "hebrew", type |-> "chapter"],
     [language |-> "hebrew", type |-> "condition"],
     [language |-> "hebrew", type |-> "annex"],
     [language |-> "hebrew", type |-> "exclusion"],
     [language |-> "hebrew", type |-> "definition"],
     [language |-> "english", type |-> "section"],
     [language |-> "english", type |-> "clause"],
     [language |-> "english", type |-> "article"],
     [language |-> "english", type |-> "paragraph"],
     [language |-> "english", type |-> "appendix"],
     [language |-> "english", type |-> "exclusion"],
     [language |-> "english", type |-> "definition"] >>

\* the matches of one pattern in line i of a text
ClauseMatches(lines, i, pattern) ==
  LET at == LineStart(lines, i) + lines[i].indent
  IN IF lines[i].text = ChapterLine /\ Shown(lines[i]) >= 5
          /\ pattern = [language |-> "hebrew", type |-> "chapter"]
       THEN <<[type |-> "chapter", number |-> "2", language |-> "hebrew",
               position |-> at]>>
     ELSE IF lines[i].text = SectionQuote /\ Shown(lines[i]) >= 9
          /\ pattern = [language |-> "english", type |-> "section"]
       THEN <<[type |-> "section", number |-> "4", language |-> "english",
               position |-> at]>>
     ELSE <<>>

\* references.sort((a, b) => a.position - b.position): a stable sort
RECURSIVE InsertByPosition(_, _)
InsertByPosition(sorted, ref) ==
  IF sorted = <<>> THEN <<ref>>
  ELSE IF Head(sorted).position <= ref.position
    THEN <<Head(sorted)>> \o InsertByPosition(Tail(sorted), ref)
  ELSE <<ref>> \o sorted

RECURSIVE SortByPosition(_)
SortByPosition(refs) ==
  IF refs = <<>> THEN <<>>
  ELSE InsertByPosition(SortByPosition(SubSeq(refs, 1, Len(refs) - 1)), refs[Len(refs)])

extractClauseReferences(text) ==
  IF TextLength(text) = 0 THEN <<>>
  ELSE SortByPosition(
         Flatten([p \in DOMAIN CLAUSE_PATTERNS |->
                    Flatten([i \in DOMAIN text |->
                               ClauseMatches(text, i, CLAUSE_PATTERNS[p])])]))

null == [null |-> TRUE]

\* the loop of findNearestClause from reference i on; a nearestDistance of -1
\* stands for Infinity
RECURSIVE NearestFold(_, _, _, _, _)
NearestFold(allRefs, i, quotePosition, nearest, nearestDistance) ==
  IF i > Len(allRefs) THEN nearest
  ELSE
    LET ref == allRefs[i]
        distance == quotePosition - ref.position
    IN IF ref.position <= quotePosition
            /\ (nearestDistance = -1 \/ distance < nearestDistance)
         THEN NearestFold(allRefs, i + 1, quotePosition, ref, distance)
         ELSE NearestFold(allRefs, i + 1, quotePosition, nearest, nearestDistance)

\* the loop with the distance taken on either side of the quote
RECURSIVE NearestFoldEitherSide(_, _, _, _, _)
NearestFoldEitherSide(allRefs, i, quotePosition, nearest, nearestDistance) ==
  IF i > Len(allRefs) THEN nearest
  ELSE
    LET ref == allRefs[i]
        distance == IF ref.position <= quotePosition
                      THEN quotePosition - ref.position
                      ELSE ref.position - quotePosition
    IN IF nearestDistance = -1 \/ distance < nearestDistance
         THEN NearestFoldEitherSide(allRefs, i + 1, quotePosition, ref, distance)
         ELSE NearestFoldEitherSide(allRefs, i + 1, quotePosition, nearest,
                                    nearestDistance)

findNearestClauseEitherSide(fullText, quote) ==
  IF TextLength(fullText) = 0 \/ quote = "" THEN null
  ELSE IF indexOf(fullText, quote) = -1 THEN null
  ELSE NearestFoldEitherSide(extractClauseReferences(fullText), 1,
                             indexOf(fullText, quote), null, -1)

findNearestClause(fullText, quote) ==
  IF TextLength(fullText) = 0 \/ quote = "" THEN null
  ELSE IF indexOf(fullText, quote) = -1 THEN null
  ELSE IF extractClauseReferences(fullText) = <<>> THEN null
  ELSE NearestFold(extractClauseReferences(fullText), 1,
                   indexOf(fullText, quote), null, -1)

\* HEADING_PATTERNS on a trimmed line of which n characters are there
colonEnding(s, n) == s = SectionQuote /\ n = TrimLen(s)

\* letters or digits, a dot, and 3 to 50 characters
hebrewNumbered(s, n) == s = NumberedLine /\ n >= 6

\* a topic word and a white space
hebrewCommon(s, n) == s = TopicQuote /\ n >= 7

allCaps(s, n) == s = CapsLine /\ n >= 11

englishNumbered(s, n) == s = NumberedLine /\ n >= 7

\* the heading of one line, <<>> when the line is none
HeadingOf(line, position) ==
  LET s == line.text
      n == Shown(line)
  IN IF n < 3 THEN <<>>
     ELSE IF colonEnding(s, n)
       THEN <<[text |-> [line |-> s, part |-> "before the colon", chars |-> n - 1],
               level |-> 2, position |-> position, type |-> "colon"]>>
     ELSE IF hebrewNumbered(s, n)
       THEN <<[text |-> [line |-> s, part |-> "after the number", chars |-> n - 3],
               level |-> 2, position |-> position, type |-> "numbered"]>>
     ELSE IF hebrewCommon(s, n)
       THEN <<[text |-> [line |-> s, part |-> "all", chars |-> n],
               level |-> 1, position |-> position, type |-> "common"]>>
     ELSE IF allCaps(s, n)
       THEN <<[text |-> [line |-> s, part |-> "all", chars |-> n],
               level |-> 1, position |-> position, type |-> "caps"]>>
     ELSE IF englishNumbered(s, n)
       THEN <<[text |-> [line |-> s, part |-> "after the number", chars |-> n - 3],
               level |-> 2, position |-> position, type |-> "numbered"]>>
     ELSE <<>>

extractHeadings(text) ==
  IF TextLength(text) = 0 THEN <<>>
  ELSE Flatten([i \in DOMAIN text |-> HeadingOf(text[i], LineStart(text, i))])

findNearestHeading(fullText, quote) ==
  IF TextLength(fullText) = 0 \/ quote = "" THEN null
  ELSE IF indexOf(fullText, quote) = -1 THEN null
  ELSE
    LET quotePosition == indexOf(fullText, quote)
        headings == extractHeadings(substring(fullText, quotePosition + 100))
        headingsBefore == SelectSeq(headings, LAMBDA h : h.position < quotePosition)
    IN IF headingsBefore = <<>> THEN null
       ELSE headingsBefore[Len(headingsBefore)]

\* the last heading of the first 99 characters, wherever the quote is
heading_titleUnlocated(pageText, quote) ==
  LET headings == extractHeadings(substring(pageText, 99))
  IN IF headings = <<>> THEN [undefined |-> TRUE]
     ELSE headings[Len(headings)].text

\* heading_title of enrichEvidenceSpan: heading?.text
heading_title(pageText, quote) ==
  IF findNearestHeading(pageText, quote) = null THEN [undefined |-> TRUE]
  ELSE findNearestHeading(pageText, quote).text

\* the words of a line: word k of line s is <<s, k>>
WordCount(s) ==
  CASE s = "" -> 0
    [] s = CapsLine -> 2
    [] s = NumberedLine -> 3
    [] s = ChapterLine -> 6
    [] s = PlainQuote -> 8
    [] s = SectionQuote -> 8
    [] s = TopicQuote -> 25

WordsOf(s) == [k \in 1..WordCount(s) |-> <<s, k>>]

\* extractParagraphAnchor: the first wordCount words of a text
extractParagraphAnchor(lines, wordCount) ==
  LET words == Flatten([i \in DOMAIN lines |-> WordsOf(lines[i].text)])
  IN SubSeq(words, 1, Min(wordCount, Len(words)))

\* fullText.lastIndexOf('\n\n', quotePosition): the line break that ends line
\* i is followed by another one when line i + 1 has no character at all
lastIndexOfBreaks(lines, quotePosition) ==
  LET at == { LineStart(lines, i) + lines[i].length :
                i \in { i \in 1..(Len(lines) - 2) : lines[i + 1].length = 0 } }
      upTo == { k \in at : k <= quotePosition }
  IN IF upTo = {} THEN -1 ELSE CHOOSE k \in upTo : \A j \in upTo : j <= k

\* the lines of fullText.substring(paragraphStart, quotePosition +
\* quote.length): from the line that starts at paragraphStart to the line of
\* the quote
findParagraphAnchor(fullText, quote) ==
  IF TextLength(fullText) = 0 \/ quote = "" THEN null
  ELSE IF indexOf(fullText, quote) = -1 THEN null
  ELSE
    LET quotePosition == indexOf(fullText, quote)
        found == lastIndexOfBreaks(fullText, quotePosition)
        paragraphStart == IF found = -1 THEN 0 ELSE found + 2
        first == CHOOSE i \in DOMAIN fullText : LineStart(fullText, i) = paragraphStart
        last == CHOOSE i \in DOMAIN fullText :
                  LineStart(fullText, i) + fullText[i].indent = quotePosition
        paragraphText == SubSeq(fullText, first, last)
    IN [words |-> extractParagraphAnchor(paragraphText, 8)]

\* the offsets of the full stops of a line
DotOffsets(s) == IF s = NumberedLine THEN {1} ELSE {}

\* the positions of the full stops of a text from position a up to b
DotsBetween(lines, a, b) ==
  { p \in UNION { { LineStart(lines, i) + lines[i].indent + o :
                      o \in DotOffsets(lines[i].text) } : i \in DOMAIN lines } :
      a <= p /\ p < b }

\* extractContext: the part of the text kept, before its trim; '' when the
\* quote is not found
extractContext(fullText, quote, contextSize) ==
  IF TextLength(fullText) = 0 \/ quote = "" THEN [empty |-> TRUE]
  ELSE IF indexOf(fullText, quote) = -1 THEN [empty |-> TRUE]
  ELSE
    LET quotePosition == indexOf(fullText, quote)
        quoteEnd == quotePosition + TrimLen(quote)
        beforeStart == IF quotePosition - contextSize > 0
                         THEN quotePosition - contextSize ELSE 0
        before == DotsBetween(fullText, beforeStart, quotePosition)
        contextStart ==
          IF before # {} THEN (CHOOSE p \in before : \A r \in before : r <= p) + 1
          ELSE beforeStart
        afterEnd == Min(TextLength(fullText), quoteEnd + contextSize)
        after == DotsBetween(fullText, quoteEnd, afterEnd)
        contextEnd ==
          IF after # {} THEN (CHOOSE p \in after : \A r \in after : p <= r) + 1
          ELSE afterEnd
    IN [from |-> contextStart, to |-> contextEnd]

\* formatClauseReference: the label of the type in the language of the
\* reference (Hebrew labels in Latin letters), and the number
formatClauseReference(ref) ==
  LET he == CASE ref.type \in {"section", "clause", "article"} -> "saif"
              [] ref.type = "chapter" -> "perek"
              [] ref.type = "paragraph" -> "piska"
              [] ref.type \in {"appendix", "annex"} -> "nispach"
              [] ref.type = "exclusion" -> "charig"
              [] ref.type = "definition" -> "hagdara"
              [] ref.type = "condition" -> "tnai"
      en == CASE ref.type = "section" -> "Section"
              [] ref.type = "chapter" -> "Chapter"
              [] ref.type = "clause" -> "Clause"
              [] ref.type = "article" -> "Article"
              [] ref.type = "paragraph" -> "Paragraph"
              [] ref.type = "appendix" -> "Appendix"
              [] ref.type = "exclusion" -> "Exclusion"
              [] ref.type = "definition" -> "Definition"
              [] ref.type = "condition" -> "Condition"
              [] ref.type = "annex" -> "Annex"
  IN [label |-> IF ref.language = "hebrew" THEN he ELSE en, number |-> ref.number]

undefined == [undefined |-> TRUE]

\* the anchor looked for whether or not a clause reference was found
anchorAlways(clauseRef, pageText, quote) == findParagraphAnchor(pageText, quote)

\* const paragraphAnchor = !clauseRef ? findParagraphAnchor(...) : null
anchorUnlessClause(clauseRef, pageText, quote) ==
  IF clauseRef = null THEN findParagraphAnchor(pageText, quote) ELSE null

\* the evidence span with its citation fields
enrichedSpan(pageText, quote, documentId, page) ==
  LET clauseRef == findNearestClause(pageText, quote)
      paragraphAnchor == anchorUnlessClause(clauseRef, pageText, quote)
      context == extractContext(pageText, quote, 150)
  IN [document_id |-> documentId,
      page |-> IF page = 0 THEN 1 ELSE page,
      quote |-> quote,
      section_path |-> IF clauseRef # null THEN formatClauseReference(clauseRef)
                       ELSE undefined,
      clause_number |-> IF clauseRef # null THEN [number |-> clauseRef.number]
                        ELSE undefined,
      heading_title |-> heading_title(pageText, quote),
      paragraph_anchor |-> IF paragraphAnchor = null \/ paragraphAnchor = [words |-> <<>>]
                             THEN undefined ELSE paragraphAnchor,
      excerpt_context |-> IF context = [empty |-> TRUE] THEN undefined ELSE context]

TextInit ==
  /\ Idle
  /\ \E text \in Texts : \E quote \in Quotes :
       call = [fn |-> "text", text |-> text, quote |-> quote]

CallNearestClause ==
  /\ call.fn = "text"
  /\ call' = [fn |-> "findNearestClause",
              text |-> call.text,
              quote |-> call.quote,
              result |-> findNearestClause(call.text, call.quote)]
  /\ IdleFrame

CallEnrich ==
  /\ call.fn = "text"
  /\ \E documentId \in 1..2 :
       call' = [fn |-> "enrichEvidenceSpan",
                text |-> call.text,
                quote |-> call.quote,
                documentId |-> documentId,
                page |-> 3 - documentId,
                heading_title |-> heading_title(call.text, call.quote),
                span |-> enrichedSpan(call.text, call.quote, documentId, 3 - documentId)]
  /\ IdleFrame

TextNext ==
  \/ CallNearestClause
  \/ CallEnrich

TextSpec == TextInit /\ [][TextNext]_vars

\* ------------------------------------------------------------------------
\* The classification of a paragraph applied on its own
\* ------------------------------------------------------------------------

\* the words a paragraph is made of
ChunkWords ==
  {"entitled", "benefit", "service", "subject to", "excluded", "coverage", "filler"}

ChunkInit ==
  /\ Idle
  /\ \E words \in SeqsUpTo(ChunkWords, MaxWords) \ {<<>>} :
       call = [fn |-> "chunk", words |-> words]

CallDetectBenefitLayer ==
  /\ call.fn = "chunk"
  /\ call' = [fn |-> "detectBenefitLayer",
              words |-> call.words,
              result |-> detectBenefitLayer(call.words)]
  /\ IdleFrame

\* extractBenefits on a document of one page that holds the paragraph
CallExtractBenefits ==
  /\ call.fn = "chunk"
  /\ \E hasSched \in BOOLEAN :
       call' = [fn |-> "extractBenefits",
                words |-> call.words,
                hasSchedule |-> hasSched,
                result |-> extractBenefits(
                             [document_id |-> 1,
                              chunks |-> <<[title |-> <<"A">>, words |-> call.words]>>],
                             hasSched)]
  /\ IdleFrame

ChunkNext ==
  \/ CallDetectBenefitLayer
  \/ CallExtractBenefits

ChunkSpec == ChunkInit /\ [][ChunkNext]_vars

\* ------------------------------------------------------------------------
\* Properties
\* ------------------------------------------------------------------------

\* the paragraph a benefit was harvested from
ChunkOf(b) ==
  LET d == CHOOSE d \in DOMAIN processedDocs :
                    processedDocs[d].document_id = b.benefit_id[1]
  IN processedDocs[d].chunks[b.benefit_id[2]].words

\* the normalization paths that call no service, or get no list from it
LocalPaths == {"fuzzy", "external_no_list", "fallback_status", "fallback_error"}

UnknownAmounts == [value_state |-> "unknown_schedule_required", values |-> <<>>]

\* the evidence rule of the specification for one span
EvidenceRule(s) == s.quote # <<>> /\ s.document_id # 0 /\ s.page > 0

\* the rule of stageValidate as the specification words it: at least one
\* span, and no span with an empty quote, document_id or page
Accepted(b) ==
  /\ Len(b.spans) >= 1
  /\ \A k \in DOMAIN b.spans :
       /\ b.spans[k].quote # <<>>
       /\ b.spans[k].document_id # 0
       /\ b.spans[k].page # 0

\* the pipeline of the job has ended
PipelineEnded == pc = "idle" /\ lastJob.pipeline

\* C1: every benefit that stageExport inserted into the store has at least
\* one evidence span, and each of its spans has a non-empty quote, a
\* non-empty document_id and page > 0, on every normalization path.
C1_EvidenceAtExport ==
  \A i \in DOMAIN store :
    /\ Len(store[i].spans) >= 1
    /\ \A k \in DOMAIN store[i].spans : EvidenceRule(store[i].spans[k])

\* C2: without a schedule, a benefit harvested from a paragraph with an
\* amount reference has amounts {unknown_schedule_required, []} after
\* harvest and after the local paths of stageNormalize, and no benefit
\* harvested or normalized locally carries values.
C2_ScheduleGating ==
  ~hasSchedule =>
    /\ \A i \in DOMAIN benefits :
         /\ hasAmountReference(ChunkOf(benefits[i]))
              => benefits[i].amounts = UnknownAmounts
         /\ benefits[i].amounts.values = <<>>
    /\ normalizePath \in LocalPaths =>
         \A i \in DOMAIN normalizedBenefits :
           /\ hasAmountReference(ChunkOf(normalizedBenefits[i]))
                => normalizedBenefits[i].amounts = UnknownAmounts
           /\ normalizedBenefits[i].amounts.values = <<>>

C2_Witness ==
  /\ ~hasSchedule
  /\ normalizePath \in LocalPaths
  /\ \E i \in DOMAIN normalizedBenefits :
       /\ hasAmountReference(ChunkOf(normalizedBenefits[i]))
       /\ \E k \in DOMAIN ChunkOf(normalizedBenefits[i]) :
            ChunkOf(normalizedBenefits[i])[k] \in Numbers
       /\ normalizedBenefits[i].amounts = UnknownAmounts

\* C3: without a schedule, every benefit of harvest and of normalization has
\* amounts.value_state = unknown_schedule_required, whether or not its
\* paragraph mentions an amount.
C3_NoScheduleAlwaysUnknown ==
  ~hasSchedule =>
    /\ \A i \in DOMAIN benefits :
         benefits[i].amounts.value_state = "unknown_schedule_required"
    /\ normalizePath \in LocalPaths =>
         \A i \in DOMAIN normalizedBenefits :
           normalizedBenefits[i].amounts.value_state = "unknown_schedule_required"

\* C4: when stageValidate rejects benefits, no error is raised, the run goes
\* on to export, what is exported is exactly the benefits with complete
\* evidence, the warnings count the rejected ones, and the run ends completed.
C4_SoftRejection ==
  validatedBenefits.invalid # <<>> =>
    /\ thrown = "none"
    /\ pc \in {"export", "complete", "idle"}
    /\ qualityMetrics.evidence_coverage_ratio # <<1, 1>>
    /\ [kind |-> "rejected", count |-> Len(validatedBenefits.invalid)]
         \in Range(qualityMetrics.warnings)
    /\ pc \in {"complete", "idle"} =>
         LET accepted == SelectSeq(normalizedBenefits, LAMBDA b : Accepted(b))
         IN /\ submitted = [i \in DOMAIN accepted |-> ExportRow(accepted[i])]
            /\ \A i \in DOMAIN store : store[i] \in Range(submitted)
    /\ pc = "idle" => run.status = "completed"

C4_Witness ==
  /\ run.status = "completed"
  /\ validatedBenefits.invalid # <<>>
  /\ validatedBenefits.valid # <<>>
  /\ Len(store) = Len(validatedBenefits.valid)

\* C5: stageValidate puts a benefit in valid iff it has a span and every
\* span has a quote, a document_id and a page, and in invalid otherwise; the
\* two lists are disjoint and hold every input benefit once, and the ratio is
\* |valid| / (|valid| + |invalid|), 0 for an empty input.
C5_ValidatePartition ==
  qualityMetrics.set =>
    LET valid == validatedBenefits.valid
        invalid == validatedBenefits.invalid
    IN /\ \A i \in DOMAIN normalizedBenefits :
            /\ Accepted(normalizedBenefits[i])
                 <=> normalizedBenefits[i] \in Range(valid)
            /\ ~Accepted(normalizedBenefits[i])
                 <=> normalizedBenefits[i] \in Range(invalid)
       /\ Range(valid) \cap Range(invalid) = {}
       /\ Range(valid) \cup Range(invalid) = Range(normalizedBenefits)
       /\ Len(valid) + Len(invalid) = Len(normalizedBenefits)
       /\ qualityMetrics.evidence_coverage_ratio
            = Ratio(Len(valid), Len(valid) + Len(invalid))
       /\ normalizedBenefits = <<>>
            => qualityMetrics.evidence_coverage_ratio = <<0, 1>>

C5_Witness ==
  /\ qualityMetrics.set
  /\ \E i \in DOMAIN validatedBenefits.invalid :
       validatedBenefits.invalid[i].spans = <<>>
  /\ qualityMetrics.evidence_coverage_ratio = <<1, 2>>

\* C6: the warnings of stageValidate hold a schedule warning iff
\* schedule_required was flagged at intake, and a rejection warning with
\* |invalid| iff |invalid| > 0, and nothing else: at most two entries, and
\* none when there is a schedule and nothing is rejected.
C6_Warnings ==
  qualityMetrics.set =>
    LET warnings == qualityMetrics.warnings
        flagged == "schedule_required" \in Range(run.missing_requirements)
        rejected == Len(validatedBenefits.invalid)
    IN /\ [kind |-> "schedule_missing", count |-> 0] \in Range(warnings) <=> flagged
       /\ (\E w \in Range(warnings) : w.kind = "rejected") <=> rejected > 0
       /\ \A w \in Range(warnings) :
            \/ w = [kind |-> "schedule_missing", count |-> 0]
            \/ w = [kind |-> "rejected", count |-> rejected]
       /\ Len(warnings) = (IF flagged THEN 1 ELSE 0) + (IF rejected > 0 THEN 1 ELSE 0)
       /\ Len(warnings) <= 2
       /\ (hasSchedule /\ rejected = 0) => warnings = <<>>

C6_Witness ==
  /\ qualityMetrics.set
  /\ Len(qualityMetrics.warnings) = 2
  /\ qualityMetrics.warnings[2].count = 1

\* C7: the final persisted state of a run that passed validation carries
\* the coverage ratio and the warnings computed by stageValidate, also when
\* the valid set is empty.
C7_FinalStateCarriesMetrics ==
  run.status = "completed" =>
    /\ run.quality_metrics.set
    /\ run.quality_metrics.extraction_confidence
         = qualityMetrics.evidence_coverage_ratio
    /\ "warnings" \in DOMAIN run.quality_metrics

\* C8: a pipeline that processed at least one document at intake ends
\* completed, whatever the documents hold; it fails only with no processed
\* document, and no missing requirement is a blocker.
C8_OnlyZeroDocumentsAborts ==
  /\ pc \in {"pipeline_catch", "job_catch"} => processedDocs = <<>>
  /\ run.status = "failed" => processedDocs = <<>>
  /\ (PipelineEnded /\ processedDocs # <<>>) => run.status = "completed"
  /\ \A m \in DOMAIN missingRequirements :
       missingRequirements[m].severity # "blocker"

C8_Witness ==
  /\ run.status = "completed"
  /\ benefits = <<>>
  /\ \E d \in DOMAIN processedDocs : processedDocs[d].chunks = <<>>
  /\ "schedule_required" \in Range(run.missing_requirements)

\* C9: a job whose processing failed is queued again and its pipeline is
\* run again on the next attempt: a retry of a job whose run has not
\* completed is not skipped.
C9_RetryRunsPipeline ==
  ~(/\ lastJob.attempt > 1
    /\ lastJob.outcome = "skipped"
    /\ run.status = "failed")

\* the stages in the order of processPolicyPipeline
StageRank(stage) ==
  CASE stage = "none" -> 0
    [] stage = "intake" -> 1
    [] stage = "map" -> 2
    [] stage = "harvest" -> 3
    [] stage = "normalize" -> 4
    [] stage = "validate" -> 5
    [] stage = "export" -> 6

\* C10: the stage of the run goes through intake, map, harvest, normalize,
\* validate, export in this order, each stage works on the result of the one
\* before it, nothing is inserted into the store before stageValidate ended,
\* and status completed is written only after stageExport returned.
C10_StageOrdering ==
  [][/\ run'.stage # run.stage
          => StageRank(run'.stage) = StageRank(run.stage) + 1
     /\ benefits' # benefits => run'.stage \in {"harvest", "normalize"}
     /\ normalizedBenefits' # normalizedBenefits
          => run'.stage = "normalize" /\ run.stage = "harvest"
     /\ validatedBenefits' # validatedBenefits
          => run'.stage = "validate" /\ run.stage = "normalize"
     /\ store' # store
          => run'.stage = "export" /\ run.stage = "validate" /\ qualityMetrics.set
     /\ (run'.status = "completed" /\ run.status # "completed")
          => run.stage = "export" /\ pc = "complete"]_vars

C10_Witness ==
  /\ run.status = "completed"
  /\ run.stage = "export"
  /\ store # <<>>
  /\ normalizePath = "fuzzy"

\* the dedup keys of the harvested benefits after step 1 of stageNormalize,
\* the empty key left out
HarvestedKeys ==
  {FuzzyKey(BasicNormalize(benefits[i], hasSchedule).title) : i \in DOMAIN benefits}
    \ {<<>>}

\* C11: the merge service is called iff more than MAX_BENEFITS benefits are
\* left after the fuzzy pass, at most once in a run and with the list the
\* fuzzy pass produced, never before stageNormalize ran its fuzzy pass.
C11_LocalFirstSizeGated ==
  /\ Len(serviceRequests) <= 1
  /\ normalizePath = "none" => serviceRequests = <<>>
  /\ normalizePath # "none" =>
       /\ Len(serviceRequests) = 1 <=> Cardinality(HarvestedKeys) > MAX_BENEFITS
       /\ normalizePath = "fuzzy" <=> serviceRequests = <<>>
       /\ \A r \in DOMAIN serviceRequests :
            LET sent == serviceRequests[r].benefits
            IN /\ serviceRequests[r].maxBenefits = MAX_BENEFITS
               /\ Len(sent) = Cardinality(HarvestedKeys)
               /\ \A i, j \in DOMAIN sent :
                    FuzzyKey(sent[i].title) = FuzzyKey(sent[j].title) => i = j

C11_Witness ==
  /\ normalizePath = "external"
  /\ Len(serviceRequests) = 1
  /\ Len(serviceRequests[1].benefits) = MAX_BENEFITS + 1

\* C12: when the merge service answers with an error status or the call
\* throws, stageNormalize returns fallbackDeduplication of the fuzzy-pass
\* output: at most MAX_BENEFITS benefits with at most 5 spans each, and the
\* run does not fail.
C12_FallbackOnFailure ==
  normalizePath \in {"fallback_status", "fallback_error"} =>
    /\ Len(serviceRequests) = 1
    /\ normalizedBenefits
         = fallbackDeduplication(serviceRequests[1].benefits, MAX_BENEFITS)
    /\ Len(normalizedBenefits) <= MAX_BENEFITS
    /\ \A i \in DOMAIN normalizedBenefits :
         /\ Len(normalizedBenefits[i].spans) <= MAX_EVIDENCE
         /\ \E j \in DOMAIN serviceRequests[1].benefits :
              serviceRequests[1].benefits[j].benefit_id
                = normalizedBenefits[i].benefit_id
    /\ thrown = "none"
    /\ pc \notin {"pipeline_catch", "job_catch"}
    /\ run.status # "failed"
    /\ PipelineEnded => run.status = "completed"

C12_Witness ==
  /\ normalizePath = "fallback_error"
  /\ Len(serviceRequests[1].benefits) > MAX_BENEFITS
  /\ Len(normalizedBenefits) = MAX_BENEFITS
  /\ run.status = "completed"

\* the benefits of a list that have a dedup key
KeyGroup(list, key) == {i \in DOMAIN list : FuzzyKey(list[i].title) = key}

QuotesOf(spans) == {spans[k].quote : k \in DOMAIN spans}

\* the quotes of the spans of the benefits of a list with a dedup key
GroupQuotes(list, key) ==
  UNION {QuotesOf(list[i].spans) : i \in KeyGroup(list, key)}

\* C13: fuzzyDeduplication returns at most one benefit per dedup key; its
\* summary is a longest summary of the input benefits with that key, its tags
\* are the union of their tags and, when they have at most 5 distinct quotes,
\* its spans are their spans with one span per quote.
C13_FuzzyMerge ==
  call.fn = "fuzzyDeduplication" =>
    LET L == call.benefits
        R == call.result
    IN /\ \A i, j \in DOMAIN R :
            FuzzyKey(R[i].title) = FuzzyKey(R[j].title) => i = j
       /\ \A r \in DOMAIN R :
            LET key == FuzzyKey(R[r].title)
                G == KeyGroup(L, key)
            IN /\ G # {}
               /\ \E i \in G : R[r].summary = L[i].summary
               /\ \A i \in G : TextLen(L[i].summary) <= TextLen(R[r].summary)
               /\ R[r].tags = UNION {L[i].tags : i \in G}
               /\ Cardinality(GroupQuotes(L, key)) <= MAX_EVIDENCE =>
                    /\ QuotesOf(R[r].spans) = GroupQuotes(L, key)
                    /\ Len(R[r].spans) = Cardinality(GroupQuotes(L, key))
                    /\ \A k \in DOMAIN R[r].spans :
                         \E i \in G : R[r].spans[k] \in Range(L[i].spans)

C13_Witness ==
  /\ call.fn = "fuzzyDeduplication"
  /\ \E r \in DOMAIN call.result :
       /\ Cardinality(KeyGroup(call.benefits, FuzzyKey(call.result[r].title))) = 2
       /\ Len(call.result[r].spans) = 4
       /\ call.result[r].tags = {"t1"}
       /\ call.result[r].summary = <<"entitled">>

\* C14: fuzzyDeduplication applied to its own result returns that result:
\* the same benefits with the same titles, summaries, tags and spans.
C14_FuzzyIdempotent ==
  call.fn = "fuzzyDeduplication twice" => call.result = call.first

C14_Witness ==
  /\ call.fn = "fuzzyDeduplication twice"
  /\ Len(call.benefits) = 3
  /\ Len(call.first) = 2
  /\ Len(call.result) = 2
  /\ \E r \in DOMAIN call.first : Len(call.first[r].spans) = MAX_EVIDENCE

\* the positions of spans that hold the first occurrence of a non-empty quote
Kept(spans) ==
  { i \in DOMAIN spans :
      /\ spans[i].quote # <<>>
      /\ \A j \in 1..(i - 1) : spans[j].quote # spans[i].quote }

\* the positions of a span list that belong to document d
OfDoc(spans, d) == { i \in DOMAIN spans : spans[i].document_id = d }

\* the kept spans of document d that the result did not take
Unused(spans, result, d) ==
  { i \in Kept(spans) \cap OfDoc(spans, d) :
      \A r \in DOMAIN result : result[r] # spans[i] }

CapBalanced(spans, result) ==
  LET docs == { spans[i].document_id : i \in DOMAIN spans }
  IN \A d1, d2 \in docs :
       (Unused(spans, result, d1) # {} /\ Unused(spans, result, d2) # {})
         => Cardinality(OfDoc(result, d1)) - Cardinality(OfDoc(result, d2)) \in -1..1

CapLowestPages(spans, result) ==
  /\ \A r1, r2 \in DOMAIN result :
       (r1 < r2 /\ result[r1].document_id = result[r2].document_id)
         => result[r1].page <= result[r2].page
  /\ \A r \in DOMAIN result :
       \A i \in Unused(spans, result, result[r].document_id) :
         result[r].page <= spans[i].page

\* C15: of a span list with more than 5 distinct non-empty quotes
\* capEvidenceSpansWorker(spans, 5) returns exactly 5 spans of the list with
\* pairwise distinct quotes; two documents that both have spans left over gave
\* numbers of spans that differ by at most one; the spans of a document are
\* its lowest pages, in ascending page order. A benefit returned by
\* fuzzyDeduplication or fallbackDeduplication has at most 5 spans.
C15_SpanCap ==
  /\ (call.fn = "capEvidenceSpansWorker"
        /\ Cardinality(Kept(call.spans)) > MAX_EVIDENCE)
       => /\ Len(call.result) = MAX_EVIDENCE
          /\ \A r \in DOMAIN call.result :
               \E i \in Kept(call.spans) : call.spans[i] = call.result[r]
          /\ \A r1, r2 \in DOMAIN call.result :
               r1 # r2 => call.result[r1].quote # call.result[r2].quote
          /\ CapBalanced(call.spans, call.result)
          /\ CapLowestPages(call.spans, call.result)
  /\ call.fn \in {"fuzzyDeduplication", "fallbackDeduplication"}
       => \A r \in DOMAIN call.result :
            Len(call.result[r].spans) <= MAX_EVIDENCE

\* 8 spans with 7 distinct quotes over 3 documents: two documents keep a span
\* unused, and a span of a lower page is taken before one given earlier
C15_Witness ==
  /\ call.fn = "capEvidenceSpansWorker"
  /\ Len(call.spans) = 8
  /\ Cardinality(Kept(call.spans)) = 7
  /\ Cardinality({ call.spans[i].document_id : i \in DOMAIN call.spans }) = 3
  /\ Len(call.result) = MAX_EVIDENCE
  /\ Cardinality({ d \in { call.spans[i].document_id : i \in DOMAIN call.spans } :
                     Unused(call.spans, call.result, d) # {} }) = 2
  /\ \E i, j \in DOMAIN call.spans :
       /\ i < j
       /\ call.spans[i].document_id = call.spans[j].document_id
       /\ \E r1, r2 \in DOMAIN call.result :
            r1 > r2 /\ call.result[r1] = call.spans[i] /\ call.result[r2] = call.spans[j]

\* the dedup keys of the benefits of a list
KeysOf(list) == { FuzzyKey(list[i].title) : i \in DOMAIN list }

\* C16: for every permutation of the input list fuzzyDeduplication returns
\* the same set of dedup keys, each gathering the same input benefits, and for
\* a key whose benefits have at most 5 distinct quotes the same set of quotes
\* and a summary of the same length.
C16_OrderIndependent ==
  call.fn = "fuzzyDeduplication permuted" =>
    LET R == call.result
        P == call.resultPermuted
    IN /\ KeysOf(R) = KeysOf(P)
       /\ Len(R) = Len(P)
       /\ \A key \in KeysOf(R) :
            { call.benefits[i].benefit_id : i \in KeyGroup(call.benefits, key) }
              = { call.permuted[i].benefit_id : i \in KeyGroup(call.permuted, key) }
       /\ \A r \in DOMAIN R : \A p \in DOMAIN P :
            (/\ FuzzyKey(R[r].title) = FuzzyKey(P[p].title)
             /\ Cardinality(GroupQuotes(call.benefits, FuzzyKey(R[r].title)))
                  <= MAX_EVIDENCE)
              => /\ QuotesOf(R[r].spans) = QuotesOf(P[p].spans)
                 /\ TextLen(R[r].summary) = TextLen(P[p].summary)

\* a group of two whose first member differs between the two orders, with
\* another key between them in one order only
C16_Witness ==
  /\ call.fn = "fuzzyDeduplication permuted"
  /\ Len(call.benefits) = 3
  /\ call.permuted # call.benefits
  /\ \E r \in DOMAIN call.result : \E p \in DOMAIN call.resultPermuted :
       /\ FuzzyKey(call.result[r].title) = FuzzyKey(call.resultPermuted[p].title)
       /\ Cardinality(KeyGroup(call.benefits, FuzzyKey(call.result[r].title))) = 2
       /\ call.result[r].title # call.resultPermuted[p].title
       /\ Len(call.result[r].spans) = 4
       /\ call.result[r].spans # call.resultPermuted[p].spans
       /\ call.result[r].summary # call.resultPermuted[p].summary
  /\ Len(call.result) = 2

\* C17: fuzzyDeduplication and fallbackDeduplication leave every benefit
\* object of their input list unchanged: the summary, the tags and the spans
\* of each input benefit are after the call what they were before it.
C17_InputsUnchanged ==
  call.fn \in {"fuzzyDeduplication", "fallbackDeduplication"} =>
    \A i \in DOMAIN call.benefits :
      /\ call.after[i].summary = call.benefits[i].summary
      /\ call.after[i].tags = call.benefits[i].tags
      /\ call.after[i].spans = call.benefits[i].spans

\* the numbers a paragraph writes as an amount: after "up to" or "maximum",
\* or before a currency sign
WrittenAmounts(text) ==
  { text[k] : k \in { k \in DOMAIN text :
      /\ text[k] \in Numbers
      /\ \/ k > 1 /\ text[k - 1] \in {"up to", "maximum"}
         \/ k < Len(text) /\ text[k + 1] = "shekel" } }

\* C19: with a schedule, every amount N that a paragraph writes as "up to N",
\* "maximum N" or as a currency-suffixed number gives an entry of
\* amounts.values whose numeric is the value of N as written, with or without
\* thousands separators.
C19_AmountsAsWritten ==
  hasSchedule =>
    \A i \in DOMAIN benefits :
      \A w \in WrittenAmounts(ChunkOf(benefits[i])) :
        \E v \in DOMAIN benefits[i].amounts.values :
          benefits[i].amounts.values[v].numeric = parseFloat(DigitsOf(w))

\* C18: for a quote found at offset q, findNearestClause returns a clause
\* reference with the largest position among those with position <= q, the
\* first of them in the order of extractClauseReferences when several share
\* that position, and null iff no reference has position <= q; a reference
\* after q is never returned.
C18_NearestClause ==
  call.fn = "findNearestClause" =>
    LET q == indexOf(call.text, call.quote)
        refs == extractClauseReferences(call.text)
        upTo == { i \in DOMAIN refs : refs[i].position <= q }
    IN /\ (call.result = null) <=> (upTo = {})
       /\ upTo # {} =>
            \E i \in upTo :
              /\ call.result = refs[i]
              /\ \A j \in upTo : refs[j].position <= refs[i].position
              /\ \A j \in upTo : refs[j].position = refs[i].position => i <= j

\* a Hebrew and an English reference before the quote and one after it: the
\* later of the two before is returned
C18_Witness ==
  /\ call.fn = "findNearestClause"
  /\ call.result # null
  /\ LET q == indexOf(call.text, call.quote)
         refs == extractClauseReferences(call.text)
     IN /\ Len(refs) = 3
        /\ refs[1].position < refs[2].position
        /\ refs[2].position < q
        /\ refs[3].position > q
        /\ call.result = refs[2]
        /\ refs[1].language # refs[2].language

\* C20: for a quote found at offset q in the page text, the heading_title of
\* the evidence span is the text of the heading with the greatest position
\* below q among the headings of the full page text, and it is absent iff no
\* heading of the page text starts before q.
C20_NearestHeading ==
  call.fn = "enrichEvidenceSpan" =>
    LET q == indexOf(call.text, call.quote)
        headings == extractHeadings(call.text)
        beforeQ == { i \in DOMAIN headings : headings[i].position < q }
    IN /\ (call.heading_title = [undefined |-> TRUE]) <=> (beforeQ = {})
       /\ beforeQ # {} =>
            \E i \in beforeQ :
              /\ \A j \in beforeQ : headings[j].position <= headings[i].position
              /\ call.heading_title = headings[i].text

\* the line of the quote, and the lines from the one after the nearest line
\* without text before it; a blank line is a line that trim leaves empty
QuoteLine(text, quote) ==
  CHOOSE i \in DOMAIN text :
    LineStart(text, i) + text[i].indent = indexOf(text, quote)

ParagraphOfQuote(text, quote) ==
  LET last == QuoteLine(text, quote)
      blanks == { i \in 1..(last - 1) : Shown(text[i]) = 0 }
      first == IF blanks = {} THEN 1
               ELSE (CHOOSE i \in blanks : \A j \in blanks : j <= i) + 1
  IN SubSeq(text, first, last)

\* C21: a span of enrichEvidenceSpan has a paragraph_anchor only if no clause
\* reference was resolved, never together with clause_number or section_path;
\* when present the anchor is the first up to 8 words of the text between the
\* nearest blank line before the quote and the end of the quote.
C21_ParagraphAnchor ==
  (call.fn = "enrichEvidenceSpan" /\ call.span.paragraph_anchor # undefined) =>
    /\ call.span.clause_number = undefined
    /\ call.span.section_path = undefined
    /\ LET words == Flatten([i \in DOMAIN ParagraphOfQuote(call.text, call.quote) |->
                               WordsOf(ParagraphOfQuote(call.text, call.quote)[i].text)])
       IN call.span.paragraph_anchor = [words |-> SubSeq(words, 1, Min(8, Len(words)))]

\* C22: when the quote does not occur in the page text, enrichEvidenceSpan
\* still returns the span, with the quote, the document id and the page it
\* was given and with section_path, clause_number, heading_title,
\* paragraph_anchor and excerpt_context absent.
C22_QuoteNotFound ==
  (call.fn = "enrichEvidenceSpan" /\ indexOf(call.text, call.quote) = -1) =>
    /\ call.span.quote = call.quote
    /\ call.span.document_id = call.documentId
    /\ call.span.page = call.page
    /\ call.span.section_path = undefined
    /\ call.span.clause_number = undefined
    /\ call.span.heading_title = undefined
    /\ call.span.paragraph_anchor = undefined
    /\ call.span.excerpt_context = undefined

\* a page text with a heading and a clause reference, and a quote that is not
\* in it
C22_Witness ==
  /\ call.fn = "enrichEvidenceSpan"
  /\ indexOf(call.text, call.quote) = -1
  /\ extractHeadings(call.text) # <<>>
  /\ extractClauseReferences(call.text) # <<>>
  /\ call.span.quote = PlainQuote
  /\ call.span.page = 2

\* a paragraph contains a keyword of a list: the keyword occurs in one of its
\* words
Contains(words, kws) == \E i \in DOMAIN words : Occurs(words[i]) \cap kws # {}

\* C23: detectBenefitLayer returns service whenever the paragraph contains a
\* service keyword, conditional whenever it contains a conditional keyword
\* and no service keyword, and always one of certain, conditional, service.
C23_LayerPriority ==
  call.fn = "detectBenefitLayer" =>
    /\ Contains(call.words, BENEFIT_KEYWORDS.service) => call.result = "service"
    /\ (/\ Contains(call.words, BENEFIT_KEYWORDS.conditional)
        /\ ~Contains(call.words, BENEFIT_KEYWORDS.service))
         => call.result = "conditional"
    /\ call.result \in {"certain", "conditional", "service"}

\* a paragraph with a service, a conditional and a certain keyword
C23_Witness ==
  /\ call.fn = "detectBenefitLayer"
  /\ Contains(call.words, BENEFIT_KEYWORDS.service)
  /\ "subject to" \in Range(call.words)
  /\ "entitled" \in Range(call.words)
  /\ call.result = "service"

\* C24: every paragraph that the harvester keeps (it contains a
\* right-conferring keyword) and that contains neither a service keyword nor
\* a conditional keyword is given layer certain.
C24_CertainByDefault ==
  call.fn = "extractBenefits" =>
    \A i \in DOMAIN call.result :
      (/\ ~Contains(call.words, BENEFIT_KEYWORDS.service)
       /\ ~Contains(call.words, BENEFIT_KEYWORDS.conditional))
        => call.result[i].layer = "certain"

\* C25: every input benefit of fuzzyDeduplication is in the output or was
\* merged into an output benefit with its dedup key, which then (when the
\* benefits of the key have at most 5 distinct quotes) has each of its
\* quotes; a benefit whose title gives the empty key is kept.
C25_NoBenefitLost ==
  call.fn = "fuzzyDeduplication" =>
    \A i \in DOMAIN call.benefits :
      \E r \in DOMAIN call.result :
        /\ FuzzyKey(call.result[r].title) = FuzzyKey(call.benefits[i].title)
        /\ Cardinality(GroupQuotes(call.benefits, FuzzyKey(call.benefits[i].title)))
             <= MAX_EVIDENCE
             => QuotesOf(call.benefits[i].spans) \subseteq QuotesOf(call.result[r].spans)

\* C26: a benefit returned by fuzzyDeduplication or fallbackDeduplication has
\* the status and the layer of every input benefit merged into it (every
\* input benefit with its key that the loop reached).
C26_MergeKeepsClass ==
  /\ call.fn = "fuzzyDeduplication" =>
       \A r \in DOMAIN call.result : \A i \in DOMAIN call.benefits :
         FuzzyKey(call.benefits[i].title) = FuzzyKey(call.result[r].title)
           => /\ call.benefits[i].status = call.result[r].status
              /\ call.benefits[i].layer = call.result[r].layer
  /\ call.fn = "fallbackDeduplication" =>
       \A r \in DOMAIN call.result : \A i \in DOMAIN call.benefits :
         (/\ FallbackKey(call.benefits[i].title) = FallbackKey(call.result[r].title)
          /\ \E k \in DOMAIN call.result[r].spans :
               call.result[r].spans[k] \in Range(call.benefits[i].spans))
           => /\ call.benefits[i].status = call.result[r].status
              /\ call.benefits[i].layer = call.result[r].layer

\* C27: whenever the run is completed, every benefit of the validator's valid
\* set is in the benefits store; after a batch insert that returned an error
\* the run is not marked completed.
C27_CompletedMeansPersisted ==
  run.status = "completed" =>
    \A i \in DOMAIN validatedBenefits.valid :
      \E k \in DOMAIN store : store[k] = ExportRow(validatedBenefits.valid[i])

\* C28: a harvested benefit has amounts.value_state = known only if a
\* document of type schedule is among the documents that were downloaded and
\* parsed at intake.
C28_KnownNeedsReadSchedule ==
  \A i \in DOMAIN benefits :
    benefits[i].amounts.value_state = "known" => HasScheduleDoc(processedDocs)

C30_CeilingAfterEmptyResponse ==
  normalizePath = "external_no_list" => Len(normalizedBenefits) <= MAX_BENEFITS

=============================================================================
